---- MODULE Spec2Model ----
(***************************************************************************)
(* Model of the staggered multi-site scheduler (SiteScheduler), the Site   *)
(* Job it runs (processSite), the baseline store, the error throttle and   *)
(* the process' shutdown handlers.                                         *)
(*                                                                         *)
(* Node.js runs one callback at a time: every action below is the code     *)
(* that runs between two suspension points (await) of one task.  Time is   *)
(* in milliseconds, as in the code.                                        *)
(***************************************************************************)
EXTENDS Integers, Sequences, FiniteSets, TLC

VARIABLES
    now,               \* Date.now(), ms
    schedules,         \* SiteScheduler.schedules: siteId -> [nextRunAt, isRunning]
    workerQueue,       \* SiteScheduler.workerQueue: sequence of site ids (WorkerJob.site)
    activeWorkers,     \* SiteScheduler.activeWorkers
    maxConcurrency,    \* SiteScheduler.maxConcurrency (GlobalConfig.MAX_CONCURRENCY)
    running,           \* SiteScheduler.running
    siteAddOrder,      \* SiteScheduler.siteAddOrder
    job,               \* per site: the processSite call (position and locals)
    executing,         \* per site: number of processSite calls started and not settled
    store,             \* baseline files: siteId -> NoBaseline or a Baseline record
    errorThrottleMap,  \* notify.ts errorThrottleMap: siteId -> NoEntry or timestamp
    sharedBrowser,     \* browser.ts sharedBrowser: "null" | "open"
    proc,              \* the process: "setup" | "run" | "signalled" | "exited"
    stopWaiting,       \* scheduler.stop() is in its drain loop
    browserHandler,    \* browser.ts signal handler is awaiting closeSharedBrowser()
    sendBaselineNotice,\* GlobalConfig.SEND_BASELINE_NOTICE
    lastFetched,       \* history: the site's most recent successful fetch
    arg,               \* a function examined on its own: its name and arguments
    ret                \* that function's progress and result

vars == <<now, schedules, workerQueue, activeWorkers, maxConcurrency, running,
          siteAddOrder, job,
          executing, store, errorThrottleMap, sharedBrowser, proc, stopWaiting,
          browserHandler, sendBaselineNotice, lastFetched, arg, ret>>

\* The variables of a function examined on its own.
callVars == <<arg, ret>>

\* The variables of the running scheduler, but for the clock and the throttle.
schedulerVars == <<schedules, workerQueue, activeWorkers, maxConcurrency, running,
                   siteAddOrder, job, executing, store, sharedBrowser, proc,
                   stopWaiting, browserHandler, sendBaselineNotice, lastFetched>>

----------------------------------------------------------------------------
(* Bounds of the model *)

\* Number of clock steps explored.
MaxTicks == 2

\* One clock step, ms.
TickMs == 60000

\* Date.now() when the process starts, ms.
StartMs == 1000000

----------------------------------------------------------------------------
(* Configuration *)

\* GlobalConfig.STAGGER_STARTUP_MINUTES
STAGGER_STARTUP_MINUTES == 1

\* The sites of the configuration, in the order main() registers them.
\* check_min/check_max 0 stands for an unset (falsy) bound.
SiteList == <<
    [id |-> "a", relevance_mode |-> "strict", check_min |-> 1, check_max |-> 2,
     goal_keywords |-> {"available"}, goal_negative_hints |-> {"sold out"},
     goal_date |-> ""],
    [id |-> "b", relevance_mode |-> "loose", check_min |-> 0, check_max |-> 0,
     goal_keywords |-> {"available"}, goal_negative_hints |-> {"sold out"},
     goal_date |-> ""] >>

SiteIds == {SiteList[i].id : i \in 1..Len(SiteList)}

SiteOf(siteId) == CHOOSE s \in {SiteList[i] : i \in 1..Len(SiteList)} : s.id = siteId

\* Texts the Fetcher can return (already scrubbed and normalized).
Texts == { "menu", "Tables Available" }

\* readBaseline's null: no baseline record.
NoBaseline == [hash |-> << >>, text |-> "", lastCheckedISO |-> 0]

\* errorThrottleMap.get(siteId) of a site without an entry (falsy, as is 0).
NoEntry == 0

\* No text fetched.
NoText == ""

\* No function is examined on its own.
NoArg == [fn |-> "none"]

NoRet == [done |-> FALSE]

\* No fetch of the site has succeeded.
NeverFetched == [fetched |-> FALSE, text |-> NoText, writeFailed |-> FALSE]

----------------------------------------------------------------------------
(* Pure functions *)

\* String.prototype.toLowerCase on one character.
toLowerCaseChar(c) ==
    CASE c = "A" -> "a" [] c = "B" -> "b" [] c = "C" -> "c" [] c = "D" -> "d"
      [] c = "E" -> "e" [] c = "F" -> "f" [] c = "G" -> "g" [] c = "H" -> "h"
      [] c = "I" -> "i" [] c = "J" -> "j" [] c = "K" -> "k" [] c = "L" -> "l"
      [] c = "M" -> "m" [] c = "N" -> "n" [] c = "O" -> "o" [] c = "P" -> "p"
      [] c = "Q" -> "q" [] c = "R" -> "r" [] c = "S" -> "s" [] c = "T" -> "t"
      [] c = "U" -> "u" [] c = "V" -> "v" [] c = "W" -> "w" [] c = "X" -> "x"
      [] c = "Y" -> "y" [] c = "Z" -> "z"
      [] OTHER -> c

\* String.prototype.toLowerCase
RECURSIVE toLowerCase(_)
toLowerCase(text) ==
    IF text = "" THEN ""
    ELSE toLowerCaseChar(SubSeq(text, 1, 1)) \o toLowerCase(SubSeq(text, 2, Len(text)))

\* String.prototype.includes: needle is a substring of text.
includes(text, needle) ==
    \E i \in 1..(Len(text) - Len(needle) + 1) :
        SubSeq(text, i, i + Len(needle) - 1) = needle

\* hash.ts sha256: a digest of the text, taken as injective.
sha256(input) == <<"sha256", input>>

\* The fixed list checkHeuristic appends to the site's negative hints.
BuiltInNegativeHints == {
    "no reservations available", "no availability", "no longer available",
    "reservations are no longer available", "not available", "unavailable",
    "no times available", "no slots available", "fully committed", "no openings",
    "closed for reservations" }

\* site.goal_date.replace(/-/g, '')
RECURSIVE condensedDate(_)
condensedDate(goal_date) ==
    IF goal_date = "" THEN ""
    ELSE LET c == SubSeq(goal_date, 1, 1)
             rest == condensedDate(SubSeq(goal_date, 2, Len(goal_date)))
         IN  IF c = "-" THEN rest ELSE c \o rest

\* checkHeuristic: some positive keyword occurs in the lowered text.
hasPositive(lowerText, site) ==
    \E keyword \in site.goal_keywords : includes(lowerText, toLowerCase(keyword))

hasNegative_configuredOnly(lowerText, site) ==
    \E hint \in site.goal_negative_hints : includes(lowerText, toLowerCase(hint))

\* checkHeuristic: some hint of the enhanced list occurs in the lowered text.
hasNegative(lowerText, site) ==
    \E hint \in site.goal_negative_hints \cup BuiltInNegativeHints :
        includes(lowerText, toLowerCase(hint))

dateCheck_isoOnly(lowerText, site) ==
    IF site.goal_date # "" THEN includes(lowerText, site.goal_date) ELSE TRUE

\* checkHeuristic: the goal date, if any, occurs as written or without hyphens.
dateCheck(lowerText, site) ==
    IF site.goal_date # ""
    THEN \/ includes(lowerText, site.goal_date)
         \/ includes(lowerText, condensedDate(site.goal_date))
    ELSE TRUE

\* relevance.ts checkHeuristic: the hit flag.
checkHeuristic(text, site) ==
    LET lowerText == toLowerCase(text)
    IN  hasPositive(lowerText, site) /\ ~hasNegative(lowerText, site)
            /\ dateCheck(lowerText, site)

\* Math.random(), in thousandths: a value of [0, 1).
RandomSamples == {0, 999}

\* site.check_min || 4 and site.check_max || 6
minMinutes(site) == IF site.check_min = 0 THEN 4 ELSE site.check_min
maxMinutes(site) == IF site.check_max = 0 THEN 6 ELSE site.check_max

\* SiteScheduler.randomMinutes times 60 * 1000: the delay in ms for the
\* sample r of Math.random().
randomDelayMs(min, max, r) == (r * (max - min) * 60 * 1000) \div 1000 + min * 60 * 1000

Max(x, y) == IF x >= y THEN x ELSE y

\* calculateStaggeredStartTime: staggerWindowMs
staggerWindowMs == STAGGER_STARTUP_MINUTES * 60 * 1000

\* calculateStaggeredStartTime: staggerDelayMs, the site's offset in the window.
staggerDelayMs(siteIndex, totalSites) ==
    (siteIndex * staggerWindowMs) \div Max(1, totalSites - 1)

\* SiteScheduler.calculateStaggeredStartTime, for the sample r of Math.random().
calculateStaggeredStartTime(siteIndex, totalSites, r) ==
    LET baseDelayMs == 10000
        randomOffsetMs == (r * 60000) \div 1000 - 30000
        totalDelayMs == baseDelayMs + staggerDelayMs(siteIndex, totalSites) + randomOffsetMs
    IN  now + Max(5000, totalDelayMs)

\* A variant that counts the delay from the previous run time (a fixed grid)
\* instead of Date.now().
nextRunTime_fromSchedule(siteId, r) ==
    schedules[siteId].nextRunAt
        + randomDelayMs(minMinutes(SiteOf(siteId)), maxMinutes(SiteOf(siteId)), r)

\* The time scheduleNextRun computes: Date.now() + delayMinutes * 60 * 1000.
nextRunTime(siteId, r) ==
    now + randomDelayMs(minMinutes(SiteOf(siteId)), maxMinutes(SiteOf(siteId)), r)

\* SiteScheduler.scheduleNextRun: the schedule map after the call.
scheduleNextRun(siteId, r) ==
    IF siteId \notin DOMAIN schedules THEN schedules
    ELSE [schedules EXCEPT ![siteId] =
             [nextRunAt |-> nextRunTime(siteId, r), isRunning |-> FALSE]]

----------------------------------------------------------------------------
(* The Site Job: SiteScheduler.processSite, one action per await *)

Kinds == {"relevant", "loose", "baseline", "error"}

InFlightPcs == {"scrape", "readBaseline", "classify", "writeFirst", "postBaseline",
                "write", "summarize", "post", "postError"}

\* relevanceResult before classifyRelevance has answered.
NoResult == [relevant |-> FALSE, reason |-> ""]

\* No notification of a change has been posted: the data argument of
\* postToDiscord, relevanceReason and heuristicResult.hit ("none" | "hit" | "miss").
NoPayload == [relevanceReason |-> "", heuristicResult |-> "none"]

\* A processSite call that has not started yet.
IdleJob ==
    [pc |-> "idle", currentText |-> NoText, baseline |-> NoBaseline, now |-> 0,
     branch |-> "none", heuristicHit |-> FALSE, shouldNotify |-> FALSE,
     relevanceResult |-> NoResult, relevanceReason |-> "", calls |-> {},
     posted |-> {}, payload |-> NoPayload, wrote |-> FALSE, outcome |-> "none"]

\* The call as the worker starts it: it runs up to `await scrapeSite(site)`.
StartedJob == [IdleJob EXCEPT !.pc = "scrape", !.outcome = "pending"]

InFlight(siteId) == job[siteId].pc \in InFlightPcs

\* The processSite call goes on to its next await.
Continue(siteId, j) ==
    /\ job' = [job EXCEPT ![siteId] = j]
    /\ UNCHANGED <<activeWorkers, executing, schedules>>

\* A variant that releases the worker slot and leaves the schedule entry alone.
Finally_slotOnly(siteId, r) ==
    /\ activeWorkers' = activeWorkers - 1
    /\ UNCHANGED schedules

\* worker(): the .finally of the processSite promise.
Finally(siteId, r) ==
    /\ activeWorkers' = activeWorkers - 1
    /\ schedules' = scheduleNextRun(siteId, r)

\* A variant whose bookkeeping hangs on .then instead of .finally: a rejected
\* promise neither releases the worker slot nor reschedules the site.
Settle_thenOnly(siteId, j, outcome, r) ==
    /\ job' = [job EXCEPT ![siteId] = [IdleJob EXCEPT !.outcome = outcome]]
    /\ executing' = [executing EXCEPT ![siteId] = @ - 1]
    /\ IF outcome = "resolved"
       THEN Finally(siteId, r)
       ELSE UNCHANGED <<activeWorkers, schedules>>

\* The processSite promise settles: .then/.catch log, .finally runs.
Settle(siteId, j, outcome, r) ==
    /\ job' = [job EXCEPT ![siteId] = [IdleJob EXCEPT !.outcome = outcome]]
    /\ executing' = [executing EXCEPT ![siteId] = @ - 1]
    /\ Finally(siteId, r)

\* processSite returns.
Return(siteId, j, r) ==
    /\ Settle(siteId, j, "resolved", r)
    /\ UNCHANGED errorThrottleMap

THROTTLE_INTERVAL_MS == 600000

throttleOpen_always(siteId) == TRUE

throttleOpen_inclusive(siteId) ==
    \/ errorThrottleMap[siteId] = NoEntry
    \/ now - errorThrottleMap[siteId] >= THROTTLE_INTERVAL_MS

\* notify.ts shouldThrottleError: the test it makes.
throttleOpen(siteId) ==
    \/ errorThrottleMap[siteId] = NoEntry
    \/ now - errorThrottleMap[siteId] > THROTTLE_INTERVAL_MS

\* The catch block of processSite, entered with an error thrown in the try.
Catch(siteId, j, r) ==
    IF throttleOpen(siteId)
    THEN /\ errorThrottleMap' = [errorThrottleMap EXCEPT ![siteId] = now]
         /\ Continue(siteId, [j EXCEPT !.pc = "postError", !.posted = @ \cup {"error"}])
    ELSE /\ UNCHANGED errorThrottleMap
         /\ Settle(siteId, j, "rejected", r)

Alive == proc \in {"run", "signalled"}

\* browser.ts getSharedBrowser: launches the browser when there is none.
getSharedBrowser == "open"

\* browser.ts closeSharedBrowser: closes the browser when there is one.
closeSharedBrowser == "null"

\* await scrapeSite(site) ends: a text, or an error after the retry policy.
ScrapeDone(siteId) ==
    /\ Alive
    /\ job[siteId].pc = "scrape"
    /\ sharedBrowser' = getSharedBrowser
    /\ \E r \in RandomSamples :
        \/ \E text \in Texts :
              /\ lastFetched' = [lastFetched EXCEPT ![siteId] =
                                    [fetched |-> TRUE, text |-> text, writeFailed |-> FALSE]]
              /\ Continue(siteId, [job[siteId] EXCEPT !.pc = "readBaseline",
                                                       !.currentText = text])
              /\ UNCHANGED errorThrottleMap
        \/ /\ Catch(siteId, job[siteId], r)
           /\ UNCHANGED lastFetched
    /\ UNCHANGED <<now, maxConcurrency, workerQueue, running, siteAddOrder, store, proc,
                   stopWaiting,
                   browserHandler, sendBaselineNotice>>
    /\ UNCHANGED callVars

\* baseline.ts readBaseline: the record of the site's file, null when there is none.
readBaseline(siteId) == store[siteId]

\* A variant without the early return on equal hashes.
sameHash_never(baseline, currentHash) == FALSE

\* processSite: baseline.hash === currentHash
sameHash(baseline, currentHash) == baseline.hash = currentHash

\* A variant that consults the classifier whatever the heuristic says.
runsClassifier_ignoresHit(site, hit) == site.relevance_mode = "strict"

\* processSite: the classifier is consulted, in strict mode on a heuristic hit.
runsClassifier(site, hit) == site.relevance_mode = "strict" /\ hit

\* A variant whose loose mode notifies only on a heuristic hit.
notifiesUnclassified_onlyOnHit(site, hit) == site.relevance_mode # "strict" /\ hit

\* processSite: shouldNotify where the classifier is not consulted: left
\* false in strict mode, set in the else branch (loose mode).
notifiesUnclassified(site, hit) == site.relevance_mode # "strict"

\* processSite from `await readBaseline` to its next await or return.
AfterRead(siteId, j, baseline, site, r) ==
    LET currentHash == sha256(j.currentText)
        jb == [j EXCEPT !.baseline = baseline, !.now = now]
    IN  IF baseline = NoBaseline
        THEN /\ Continue(siteId, [jb EXCEPT !.pc = "writeFirst", !.branch = "first"])
             /\ UNCHANGED errorThrottleMap
        ELSE IF sameHash(baseline, currentHash)
        THEN Return(siteId, [jb EXCEPT !.branch = "same"], r)
        ELSE LET hit == checkHeuristic(j.currentText, site)
                 jh == [jb EXCEPT !.branch = "changed", !.heuristicHit = hit,
                                  !.calls = @ \cup {"heuristic"}]
             IN  /\ UNCHANGED errorThrottleMap
                 /\ IF runsClassifier(site, hit)
                    THEN Continue(siteId, [jh EXCEPT !.pc = "classify",
                                              !.calls = @ \cup {"classifier"}])
                    ELSE Continue(siteId, [jh EXCEPT !.pc = "write",
                                  !.shouldNotify = notifiesUnclassified(site, hit)])

ReadDone(siteId) ==
    /\ Alive
    /\ job[siteId].pc = "readBaseline"
    /\ \E r \in RandomSamples :
          AfterRead(siteId, job[siteId], readBaseline(siteId), SiteOf(siteId), r)
    /\ UNCHANGED <<now, maxConcurrency, workerQueue, running, siteAddOrder, store,
                   sharedBrowser, proc,
                   stopWaiting, browserHandler, sendBaselineNotice, lastFetched>>
    /\ UNCHANGED callVars

\* relevance.ts classifyRelevance: the verdict of the model, or the fallback
\* of its catch block when the call or the validation of the answer fails.
ClassifierResults ==
    { [relevant |-> TRUE, reason |-> "verdict"],
      [relevant |-> FALSE, reason |-> "verdict"],
      [relevant |-> TRUE, reason |-> "Classification error"] }

\* A variant that notifies whatever the verdict is.
notifyOnVerdict_always(relevanceResult) == TRUE

\* processSite: shouldNotify = relevanceResult.relevant
notifyOnVerdict(relevanceResult) == relevanceResult.relevant

\* await classifyRelevance(...) ends.
ClassifyDone(siteId) ==
    /\ Alive
    /\ job[siteId].pc = "classify"
    /\ \E relevanceResult \in ClassifierResults :
          Continue(siteId, [job[siteId] EXCEPT !.pc = "write",
                                !.relevanceResult = relevanceResult,
                                !.shouldNotify = notifyOnVerdict(relevanceResult),
                                !.relevanceReason = relevanceResult.reason])
    /\ UNCHANGED <<now, maxConcurrency, workerQueue, running, siteAddOrder, store,
                   errorThrottleMap,
                   sharedBrowser, proc, stopWaiting, browserHandler, sendBaselineNotice,
                   lastFetched>>
    /\ UNCHANGED callVars

\* A variant that reports success and leaves the file as it was.
writeBaseline_noop(siteId, baseline) == store

\* baseline.ts writeBaseline: the store after a write that succeeds.
writeBaseline(siteId, baseline) == [store EXCEPT ![siteId] = baseline]

\* A variant that keeps the fingerprint read at the start of the cycle.
newBaseline_oldHash(j) ==
    [hash |-> j.baseline.hash, text |-> j.currentText, lastCheckedISO |-> j.now]

\* processSite: the record it writes, { hash: currentHash, text: currentText,
\* lastCheckedISO: now }.
newBaseline(j) ==
    [hash |-> sha256(j.currentText), text |-> j.currentText, lastCheckedISO |-> j.now]

\* A variant that updates the baseline only when it is going to notify.
updatedStore_onlyOnNotify(siteId, j) ==
    IF j.shouldNotify THEN writeBaseline(siteId, newBaseline(j)) ELSE store

\* A variant that leaves the write of a change it notifies for after the
\* delivery.
updatedStore_unlessNotify(siteId, j) ==
    IF j.shouldNotify THEN store ELSE writeBaseline(siteId, newBaseline(j))

\* processSite: "Update baseline regardless of notification decision".
updatedStore(siteId, j) == writeBaseline(siteId, newBaseline(j))

\* The write of the first baseline ends: done, or an I/O error.
WriteFirstDone(siteId) ==
    /\ Alive
    /\ job[siteId].pc = "writeFirst"
    /\ \E r \in RandomSamples :
        \/ /\ store' = writeBaseline(siteId, newBaseline(job[siteId]))
           /\ UNCHANGED lastFetched
           /\ IF sendBaselineNotice
              THEN Continue(siteId, [job[siteId] EXCEPT !.pc = "postBaseline",
                                        !.wrote = TRUE, !.posted = @ \cup {"baseline"}])
                   /\ UNCHANGED errorThrottleMap
              ELSE Return(siteId, [job[siteId] EXCEPT !.wrote = TRUE], r)
        \/ /\ UNCHANGED store
           /\ lastFetched' = [lastFetched EXCEPT ![siteId].writeFailed = TRUE]
           /\ Catch(siteId, job[siteId], r)
    /\ UNCHANGED <<now, maxConcurrency, workerQueue, running, siteAddOrder,
                   sharedBrowser, proc, stopWaiting, browserHandler, sendBaselineNotice>>
    /\ UNCHANGED callVars

\* The write after a change ends: done, or an I/O error.
WriteDone(siteId) ==
    /\ Alive
    /\ job[siteId].pc = "write"
    /\ \E r \in RandomSamples :
        \/ /\ store' = updatedStore(siteId, job[siteId])
           /\ UNCHANGED lastFetched
           /\ IF job[siteId].shouldNotify
              THEN /\ Continue(siteId, [job[siteId] EXCEPT !.pc = "summarize",
                                         !.wrote = TRUE, !.calls = @ \cup {"summarizer"}])
                   /\ UNCHANGED errorThrottleMap
              ELSE Return(siteId, [job[siteId] EXCEPT !.wrote = TRUE], r)
        \/ /\ UNCHANGED store
           /\ lastFetched' = [lastFetched EXCEPT ![siteId].writeFailed = TRUE]
           /\ Catch(siteId, job[siteId], r)
    /\ UNCHANGED <<now, maxConcurrency, workerQueue, running, siteAddOrder,
                   sharedBrowser, proc, stopWaiting, browserHandler, sendBaselineNotice>>
    /\ UNCHANGED callVars

\* await summarizeGoalAware(...) ends (it catches its own errors); the
\* notification is posted.
SummarizeDone(siteId) ==
    /\ Alive
    /\ job[siteId].pc = "summarize"
    /\ LET strict == SiteOf(siteId).relevance_mode = "strict"
           kind == IF strict THEN "relevant" ELSE "loose"
           data == IF strict
                   THEN [NoPayload EXCEPT !.relevanceReason = job[siteId].relevanceReason]
                   ELSE [NoPayload EXCEPT !.heuristicResult =
                             IF job[siteId].heuristicHit THEN "hit" ELSE "miss"]
       IN  Continue(siteId, [job[siteId] EXCEPT !.pc = "post", !.posted = @ \cup {kind},
                                                !.payload = data])
    /\ UNCHANGED <<now, maxConcurrency, workerQueue, running, siteAddOrder, store,
                   errorThrottleMap,
                   sharedBrowser, proc, stopWaiting, browserHandler, sendBaselineNotice,
                   lastFetched>>
    /\ UNCHANGED callVars

\* await postToDiscord(site, 'relevant' | 'loose' | 'baseline', ...) ends:
\* delivered, or postToDiscord rethrows the delivery error.
PostDone(siteId) ==
    /\ Alive
    /\ job[siteId].pc \in {"post", "postBaseline"}
    /\ \E r \in RandomSamples :
        \/ Return(siteId, job[siteId], r)
        \/ Catch(siteId, job[siteId], r)
    /\ UNCHANGED <<now, maxConcurrency, workerQueue, running, siteAddOrder, store,
                   sharedBrowser, proc,
                   stopWaiting, browserHandler, sendBaselineNotice, lastFetched>>
    /\ UNCHANGED callVars

\* await postToDiscord(site, 'error', ...) ends, delivered or not (a failure
\* is logged); the error is thrown again.
PostErrorDone(siteId) ==
    /\ Alive
    /\ job[siteId].pc = "postError"
    /\ \E r \in RandomSamples : Settle(siteId, job[siteId], "rejected", r)
    /\ UNCHANGED <<now, maxConcurrency, workerQueue, running, siteAddOrder, store,
                   errorThrottleMap,
                   sharedBrowser, proc, stopWaiting, browserHandler, sendBaselineNotice,
                   lastFetched>>
    /\ UNCHANGED callVars

----------------------------------------------------------------------------
(* The scheduler: SiteScheduler *)

\* SiteScheduler.addSite, called by main() for each configured site in turn.
addSite ==
    /\ proc = "setup"
    /\ siteAddOrder < Len(SiteList)
    /\ LET siteId == SiteList[siteAddOrder + 1].id
       IN  /\ siteId \notin DOMAIN schedules
           /\ \E r \in RandomSamples :
                LET startTime == calculateStaggeredStartTime(
                                     siteAddOrder, Cardinality(DOMAIN schedules) + 1, r)
                IN  schedules' = schedules @@
                        (siteId :> [nextRunAt |-> startTime, isRunning |-> FALSE])
    /\ siteAddOrder' = siteAddOrder + 1
    /\ UNCHANGED <<now, maxConcurrency, workerQueue, activeWorkers, running, job,
                   executing, store,
                   errorThrottleMap, sharedBrowser, proc, stopWaiting, browserHandler,
                   sendBaselineNotice, lastFetched>>
    /\ UNCHANGED callVars

\* SiteScheduler.start, called by main() once every site is added: the
\* worker loops and the dispatcher loop begin.
start ==
    /\ proc = "setup"
    /\ siteAddOrder = Len(SiteList)
    /\ ~running
    /\ running' = TRUE
    /\ proc' = "run"
    /\ UNCHANGED <<now, maxConcurrency, schedules, workerQueue, activeWorkers,
                   siteAddOrder, job,
                   executing, store, errorThrottleMap, sharedBrowser, stopWaiting,
                   browserHandler, sendBaselineNotice, lastFetched>>
    /\ UNCHANGED callVars

\* A variant of the test without the concurrency limit.
workerMayTake_noLimit == workerQueue # <<>>

\* worker(): the loop goes on to dequeue (the negation of its sleep test).
workerMayTake == workerQueue # <<>> /\ activeWorkers < maxConcurrency

\* A variant that takes the job queued last.
shift_pop(queue) ==
    [job |-> queue[Len(queue)], rest |-> SubSeq(queue, 1, Len(queue) - 1)]

\* Array.prototype.shift: the first element, and the array it leaves.
shift(queue) == [job |-> Head(queue), rest |-> Tail(queue)]

\* worker(): one iteration that takes a job.  A loop that finds running
\* false, or nothing to take, sleeps or ends and changes nothing.
worker ==
    /\ Alive
    /\ running
    /\ workerMayTake
    /\ LET siteId == shift(workerQueue).job
       IN  /\ job' = [job EXCEPT ![siteId] = StartedJob]
           /\ executing' = [executing EXCEPT ![siteId] = @ + 1]
    /\ workerQueue' = shift(workerQueue).rest
    /\ activeWorkers' = activeWorkers + 1
    /\ UNCHANGED <<now, maxConcurrency, schedules, running, siteAddOrder, store,
                   errorThrottleMap,
                   sharedBrowser, proc, stopWaiting, browserHandler, sendBaselineNotice,
                   lastFetched>>
    /\ UNCHANGED callVars

maxQueuePerRound == 1

\* A variant that passes over running sites only.
dispatchSkips_ignoresTime(schedule) == schedule.isRunning

\* dispatcher(): the site is passed over (continue).
dispatchSkips(schedule) == schedule.isRunning \/ schedule.nextRunAt > now

\* A variant without the per-round limit.
dispatchBreaks_noRoundLimit(queuedThisRound) == activeWorkers >= maxConcurrency

\* dispatcher(): the scan ends (break).
dispatchBreaks(queuedThisRound) ==
    activeWorkers >= maxConcurrency \/ queuedThisRound >= maxQueuePerRound

\* A variant that queues the site without marking it.
markQueued_noMark(schedule) == schedule

\* dispatcher(): the schedule entry of a site as it is queued.
markQueued(schedule) == [schedule EXCEPT !.isRunning = TRUE]

\* dispatcher(): the for loop over the schedule map, in insertion order,
\* from the i-th registered site on.
RECURSIVE dispatchFrom(_, _, _, _)
dispatchFrom(i, sched, queue, queuedThisRound) ==
    IF i > Len(SiteList) \/ SiteList[i].id \notin DOMAIN sched
    THEN [schedules |-> sched, workerQueue |-> queue]
    ELSE LET siteId == SiteList[i].id
         IN  IF dispatchSkips(sched[siteId])
             THEN dispatchFrom(i + 1, sched, queue, queuedThisRound)
             ELSE IF dispatchBreaks(queuedThisRound)
             THEN [schedules |-> sched, workerQueue |-> queue]
             ELSE dispatchFrom(i + 1, [sched EXCEPT ![siteId] = markQueued(@)],
                               Append(queue, siteId), queuedThisRound + 1)

\* dispatcher(): one round of the loop.
dispatcher ==
    /\ Alive
    /\ running
    /\ LET round == dispatchFrom(1, schedules, workerQueue, 0)
       IN  /\ schedules' = round.schedules
           /\ workerQueue' = round.workerQueue
    /\ UNCHANGED <<now, maxConcurrency, activeWorkers, running, siteAddOrder, job,
                   executing, store,
                   errorThrottleMap, sharedBrowser, proc, stopWaiting, browserHandler,
                   sendBaselineNotice, lastFetched>>
    /\ UNCHANGED callVars

----------------------------------------------------------------------------
(* The process: signal handlers and exit *)

\* process.exit: the jobs in flight end with the process.
exitProcess ==
    /\ proc' = "exited"
    /\ job' = [s \in SiteIds |->
                 IF InFlight(s) THEN [job[s] EXCEPT !.pc = "killed"] ELSE job[s]]

\* SIGTERM or SIGINT arrives.  Its listeners run in the order they were
\* registered: the one of browser.ts calls closeSharedBrowser(), which closes
\* the browser if there is one; gracefulShutdown calls scheduler.stop(),
\* which clears running and waits for activeWorkers to reach 0.
Signal ==
    /\ proc = "run"
    /\ proc' = "signalled"
    /\ sharedBrowser' = closeSharedBrowser
    /\ browserHandler' = TRUE
    /\ running' = FALSE
    /\ stopWaiting' = TRUE
    /\ UNCHANGED <<now, maxConcurrency, schedules, workerQueue, activeWorkers,
                   siteAddOrder, job,
                   executing, store, errorThrottleMap, sendBaselineNotice, lastFetched>>
    /\ UNCHANGED callVars

\* browser.ts: after `await closeSharedBrowser()` the listener exits.
BrowserHandlerExit ==
    /\ proc = "signalled"
    /\ browserHandler
    /\ exitProcess
    /\ UNCHANGED <<now, maxConcurrency, schedules, workerQueue, activeWorkers, running,
                   siteAddOrder,
                   executing, store, errorThrottleMap, sharedBrowser, stopWaiting,
                   browserHandler, sendBaselineNotice, lastFetched>>
    /\ UNCHANGED callVars

\* scheduler.stop(): its drain loop ends.
stopDrained == activeWorkers <= 0

\* gracefulShutdown: stop() returns, the browser is closed, the process exits.
GracefulExit ==
    /\ proc = "signalled"
    /\ stopWaiting
    /\ stopDrained
    /\ stopWaiting' = FALSE
    /\ sharedBrowser' = closeSharedBrowser
    /\ exitProcess
    /\ UNCHANGED <<now, maxConcurrency, schedules, workerQueue, activeWorkers, running,
                   siteAddOrder,
                   executing, store, errorThrottleMap, browserHandler,
                   sendBaselineNotice, lastFetched>>
    /\ UNCHANGED callVars

\* Time passes.
Tick ==
    /\ Alive
    /\ now < StartMs + MaxTicks * TickMs
    /\ now' = now + TickMs
    /\ UNCHANGED <<maxConcurrency, schedules, workerQueue, activeWorkers, running,
                   siteAddOrder, job, executing, store, errorThrottleMap, sharedBrowser,
                   proc, stopWaiting, browserHandler, sendBaselineNotice, lastFetched>>
    /\ UNCHANGED callVars

----------------------------------------------------------------------------
(* The specification *)

\* The values of MAX_CONCURRENCY the model is run with.
MaxConcurrencyChoices == {1, 2}

\* A baseline a previous run of the program has left.
OldBaseline(text) == [hash |-> sha256(text), text |-> text, lastCheckedISO |-> 0]

\* The baseline files the program can find at start: none, or the record of
\* a text the site showed before (for the loose site one it shows no more).
StoredBaselines(siteId) ==
    IF SiteOf(siteId).relevance_mode = "strict"
    THEN {NoBaseline, OldBaseline("menu")}
    ELSE {NoBaseline, OldBaseline("closed")}

Init ==
    /\ now = StartMs
    /\ schedules = << >>
    /\ workerQueue = << >>
    /\ activeWorkers = 0
    /\ maxConcurrency \in MaxConcurrencyChoices
    /\ running = FALSE
    /\ siteAddOrder = 0
    /\ job = [s \in SiteIds |-> IdleJob]
    /\ executing = [s \in SiteIds |-> 0]
    /\ store \in {f \in [SiteIds -> UNION {StoredBaselines(s) : s \in SiteIds}] :
                     \A s \in SiteIds : f[s] \in StoredBaselines(s)}
    /\ errorThrottleMap = [s \in SiteIds |-> NoEntry]
    /\ sharedBrowser = "null"
    /\ proc = "setup"
    /\ stopWaiting = FALSE
    /\ browserHandler = FALSE
    /\ sendBaselineNotice \in BOOLEAN
    /\ lastFetched = [s \in SiteIds |-> NeverFetched]
    /\ arg = NoArg
    /\ ret = NoRet

JobStep ==
    \E siteId \in SiteIds :
        \/ ScrapeDone(siteId)
        \/ ReadDone(siteId)
        \/ ClassifyDone(siteId)
        \/ WriteFirstDone(siteId)
        \/ WriteDone(siteId)
        \/ SummarizeDone(siteId)
        \/ PostDone(siteId)
        \/ PostErrorDone(siteId)

Next ==
    \/ addSite
    \/ start
    \/ worker
    \/ dispatcher
    \/ JobStep
    \/ Signal
    \/ BrowserHandlerExit
    \/ GracefulExit
    \/ Tick

Spec == Init /\ [][Next]_vars

----------------------------------------------------------------------------
(* Properties of the scheduler *)

RECURSIVE SumOver(_, _)
SumOver(f, S) ==
    IF S = {} THEN 0
    ELSE LET x == CHOOSE y \in S : TRUE IN f[x] + SumOver(f, S \ {x})

\* Site Jobs started and not yet settled.
StartedNotSettled == SumOver(executing, SiteIds)

\* Jobs of the site waiting in the worker queue.
QueueCount(siteId) == Cardinality({i \in 1..Len(workerQueue) : workerQueue[i] = siteId})

\* The window scheduleNextRun draws from, counted from the current time.
InWindow(siteId, t) ==
    /\ t >= now + minMinutes(SiteOf(siteId)) * 60 * 1000
    /\ t <= now + maxMinutes(SiteOf(siteId)) * 60 * 1000

\* The step completes the Site Job of the site (its promise settles).
Completes(siteId) == InFlight(siteId) /\ job'[siteId].pc = "idle"

\* C1: in every reachable state the number of Site Jobs started and not yet
\* settled is at most maxConcurrency.
C1_ConcurrencyBound == StartedNotSettled <= maxConcurrency

\* As many jobs run as the limit allows while another one waits in the queue.
C1_Witness ==
    /\ StartedNotSettled = maxConcurrency
    /\ activeWorkers = maxConcurrency
    /\ workerQueue # << >>
    /\ running

\* C2: a site has at most one job queued or executing; it is marked running
\* in the step that enqueues it, stays marked while the job is queued or
\* executing, and is enqueued only when it is not marked.
C2_OneJobPerSite ==
    /\ [](\A s \in SiteIds :
            /\ QueueCount(s) + executing[s] <= 1
            /\ QueueCount(s) + executing[s] = 1 =>
                   s \in DOMAIN schedules /\ schedules[s].isRunning)
    /\ [][\A s \in SiteIds :
            QueueCount(s)' > QueueCount(s) =>
                ~schedules[s].isRunning /\ schedules'[s].isRunning]_vars

\* A site is executing, still marked, with a run time that has long passed,
\* while the dispatcher keeps scanning.
C2_Witness ==
    \E s \in SiteIds :
        /\ executing[s] = 1
        /\ schedules[s].isRunning
        /\ schedules[s].nextRunAt + TickMs <= now
        /\ running

\* C3: the step that completes a job, resolved or rejected, clears the
\* site's running flag and sets its next run between check_min and check_max
\* minutes (4 and 6 where the site leaves a bound unset) after the time of
\* completion.
C3_RescheduledFromCompletion ==
    [][\A s \in SiteIds :
          Completes(s) =>
              /\ job'[s].outcome \in {"resolved", "rejected"}
              /\ ~schedules'[s].isRunning
              /\ InWindow(s, schedules'[s].nextRunAt)]_vars

\* A job that started late and threw has been rescheduled from its completion
\* time: the next run lies a full window after the site's first run time.
C3_Witness ==
    \E s \in SiteIds :
        /\ job[s].pc = "idle"
        /\ job[s].outcome = "rejected"
        /\ ~schedules[s].isRunning
        /\ InWindow(s, schedules[s].nextRunAt)
        /\ now >= StartMs + 2 * TickMs

\* The step closes the shared browser or ends the process.
ReleasesResources ==
    \/ sharedBrowser = "open" /\ sharedBrowser' = "null"
    \/ proc # "exited" /\ proc' = "exited"

\* C4: no step closes the shared browser or ends the process while a Site
\* Job is executing, whichever signal listener takes the step.
C4_ReleaseAfterDrain ==
    [][ReleasesResources => \A s \in SiteIds : ~InFlight(s)]_vars

\* stop() has signalled shutdown.
StopSignalled == proc = "signalled" /\ ~running

\* C5: once stop() has signalled shutdown nothing more is enqueued, no job
\* is started, and no executing job is cut short.
C5_StopLetsJobsFinish ==
    [][StopSignalled =>
          /\ Len(workerQueue') <= Len(workerQueue)
          /\ \A s \in SiteIds :
                /\ executing'[s] <= executing[s]
                /\ InFlight(s) => job'[s].pc # "killed"]_vars

\* C6: the step in which a Site Job fails leaves the loops running, takes
\* one off the active count, changes nothing of the other sites (their jobs,
\* schedule entries, queue positions and baselines) and reschedules the
\* failed site as a success does: flag cleared, next run in the window.
C6_FailureConfined ==
    [][\A s \in SiteIds :
          (Completes(s) /\ job'[s].outcome = "rejected") =>
              /\ running' = running
              /\ proc' = proc
              /\ activeWorkers' = activeWorkers - 1
              /\ workerQueue' = workerQueue
              /\ \A t \in SiteIds \ {s} :
                    /\ job'[t] = job[t]
                    /\ executing'[t] = executing[t]
                    /\ schedules'[t] = schedules[t]
                    /\ store'[t] = store[t]
              /\ ~schedules'[s].isRunning
              /\ InWindow(s, schedules'[s].nextRunAt)]_vars

\* A job has failed while the job of another site is in flight and the
\* scheduler runs on.
C6_Witness ==
    \E s \in SiteIds : \E t \in SiteIds \ {s} :
        /\ job[s].pc = "idle"
        /\ job[s].outcome = "rejected"
        /\ executing[s] = 0
        /\ ~schedules[s].isRunning
        /\ InFlight(t)
        /\ running

----------------------------------------------------------------------------
(* Properties of the Site Job *)

\* The try block of the cycle ends in this step: it returns or throws.
TryEnds(siteId) ==
    /\ job[siteId].pc \in InFlightPcs \ {"postError"}
    /\ job'[siteId].pc \in {"idle", "postError"}

\* The cycle's notifications of a change.
ChangeKinds == {"relevant", "loose"}

\* C7 as stated: the try block of a first-observation cycle ends by
\* returning, with a baseline of the fetched text's fingerprint written,
\* no filter, classifier or summarizer call and no change notification.
C7_FirstCycleWritesAndReturns ==
    [][\A s \in SiteIds :
          (job[s].branch = "first" /\ TryEnds(s)) =>
              /\ job'[s].pc = "idle"
              /\ job'[s].outcome = "resolved"
              /\ store'[s].hash = sha256(job[s].currentText)
              /\ job[s].calls = {}
              /\ job[s].posted \cap ChangeKinds = {}]_vars

\* C7, amended: a first-observation cycle makes no filter, classifier or
\* summarizer call and sends no change notification; once its write has
\* succeeded the stored baseline is the fetched text's, and it returns
\* normally only after that write.
C7_FirstCycleBaselineOnly ==
    /\ [](\A s \in SiteIds :
            job[s].branch = "first" =>
                /\ job[s].calls = {}
                /\ job[s].posted \cap ChangeKinds = {}
                /\ job[s].wrote => store[s] = newBaseline(job[s])
                /\ job[s].pc = "postBaseline" => job[s].wrote)
    /\ [][\A s \in SiteIds :
            (job[s].branch = "first" /\ Completes(s)
                /\ job'[s].outcome = "resolved") =>
                /\ store'[s].hash = sha256(job[s].currentText)
                /\ store'[s].text = job[s].currentText]_vars

\* A first-observation cycle has written its baseline and is sending the
\* baseline notice.
C7_Witness ==
    \E s \in SiteIds :
        /\ job[s].branch = "first"
        /\ job[s].pc = "postBaseline"
        /\ job[s].baseline = NoBaseline
        /\ store[s].hash = sha256(job[s].currentText)
        /\ job[s].posted = {"baseline"}

\* The cycle is at its comparison and the fingerprints are equal.
FindsSameHash(siteId) ==
    /\ job[siteId].pc = "readBaseline"
    /\ store[siteId] # NoBaseline
    /\ store[siteId].hash = sha256(job[siteId].currentText)

\* C8: a cycle whose fingerprint equals the stored one goes no further than
\* the comparison: its next step ends it with the baseline record as it was,
\* nothing posted and no classifier or summarizer call.
C8_SameHashNoEffect ==
    [][\A s \in SiteIds :
          (FindsSameHash(s) /\ job'[s] # job[s]) =>
              /\ job'[s].pc \in {"idle", "killed"}
              /\ job'[s].pc = "idle" => job'[s].outcome = "resolved"
              /\ store'[s] = store[s]
              /\ job[s].posted = {} /\ job'[s].posted = {}
              /\ job[s].calls = {} /\ job'[s].calls = {}]_vars

\* A cycle fetched the text of the baseline left by an earlier run and has
\* returned; the record still carries that run's timestamp.
C8_Witness ==
    \E s \in SiteIds :
        /\ job[s].pc = "idle"
        /\ job[s].outcome = "resolved"
        /\ lastFetched[s].fetched
        /\ store[s].hash = sha256(lastFetched[s].text)
        /\ store[s].lastCheckedISO < StartMs

\* C9 as stated: when a cycle that found a changed fingerprint ends, the
\* stored baseline holds the new fingerprint and text.
C9_ChangeAlwaysStored ==
    [][\A s \in SiteIds :
          (job[s].branch = "changed" /\ Completes(s)) =>
              /\ store'[s].hash = sha256(job[s].currentText)
              /\ store'[s].text = job[s].currentText]_vars

\* C9, amended: when a cycle that found a changed fingerprint ends and its
\* baseline write did not fail, the stored baseline holds the new fingerprint
\* and text, whatever the relevance outcome and whether or not the
\* notification was delivered.
C9_ChangeStoredUnlessWriteFails ==
    [][\A s \in SiteIds :
          (job[s].branch = "changed" /\ Completes(s)
              /\ ~lastFetched'[s].writeFailed) =>
              /\ store'[s].hash = sha256(job[s].currentText)
              /\ store'[s].text = job[s].currentText]_vars

\* A cycle found a change, replaced the baseline, and then failed to deliver
\* its notification: the new baseline stays.
C9_Witness ==
    \E s \in SiteIds :
        /\ job[s].branch = "changed"
        /\ job[s].pc = "postError"
        /\ job[s].posted \cap ChangeKinds # {}
        /\ job[s].baseline.hash # sha256(job[s].currentText)
        /\ store[s] = newBaseline(job[s])

----------------------------------------------------------------------------
(* Properties of the relevance decision *)

\* The site's cycle has found a changed fingerprint.
ChangeDetected(siteId) == job[siteId].branch = "changed"

Strict(siteId) == SiteOf(siteId).relevance_mode = "strict"

\* The heuristic result of the cycle is the one checkHeuristic gives for the
\* fetched text.
HeuristicRecorded(siteId) ==
    job[siteId].heuristicHit = checkHeuristic(job[siteId].currentText, SiteOf(siteId))

\* C11: in a strict-mode cycle that detects a change the heuristic misses,
\* the classifier and the summarizer are never called, shouldNotify stays
\* false and nothing is posted but, after a failed baseline write, the error
\* event.
C11_StrictMissIsSilent ==
    \A s \in SiteIds :
        (Strict(s) /\ ChangeDetected(s) /\ ~job[s].heuristicHit) =>
            /\ HeuristicRecorded(s)
            /\ job[s].calls = {"heuristic"}
            /\ ~job[s].shouldNotify
            /\ job[s].posted \subseteq {"error"}
            /\ "error" \in job[s].posted => lastFetched[s].writeFailed

\* A strict-mode cycle found a change, the heuristic missed, and the cycle is
\* at its baseline write with nothing else called.
C11_Witness ==
    \E s \in SiteIds :
        /\ Strict(s)
        /\ ChangeDetected(s)
        /\ job[s].pc = "write"
        /\ ~checkHeuristic(job[s].currentText, SiteOf(s))
        /\ job[s].baseline.hash # sha256(job[s].currentText)
        /\ job[s].calls = {"heuristic"}

\* C12 as stated: a strict-mode cycle that detected a change with a heuristic
\* hit ends having posted a 'relevant' notification exactly when the
\* classifier's verdict was true.
C12_RelevantIffVerdict ==
    [][\A s \in SiteIds :
          (Strict(s) /\ ChangeDetected(s) /\ job[s].heuristicHit /\ Completes(s)) =>
              ("relevant" \in job[s].posted <=> job[s].relevanceResult.relevant)]_vars

\* C12, amended: in a strict-mode cycle that detected a change with a
\* heuristic hit, a 'relevant' notification is posted only after a true
\* verdict and carries the classifier's reason; after a true verdict it is
\* posted as soon as the baseline is written and the summary is made; no
\* 'loose' notification is posted.
C12_RelevantOnlyOnVerdict ==
    \A s \in SiteIds :
        (Strict(s) /\ ChangeDetected(s) /\ job[s].heuristicHit) =>
            /\ HeuristicRecorded(s)
            /\ "classifier" \in job[s].calls
            /\ "loose" \notin job[s].posted
            /\ "relevant" \in job[s].posted =>
                   /\ job[s].relevanceResult.relevant
                   /\ job[s].payload.relevanceReason = job[s].relevanceResult.reason
                   /\ job[s].wrote
            /\ (job[s].wrote /\ job[s].relevanceResult.relevant /\ InFlight(s)) =>
                   job[s].pc = "summarize" \/ "relevant" \in job[s].posted
            /\ (job[s].pc \in {"write", "summarize", "post"}) =>
                   job[s].shouldNotify = job[s].relevanceResult.relevant

\* The classifier said relevant and the 'relevant' notification is on its
\* way with the classifier's reason.
C12_Witness ==
    \E s \in SiteIds :
        /\ Strict(s)
        /\ ChangeDetected(s)
        /\ job[s].heuristicHit
        /\ job[s].pc = "post"
        /\ job[s].relevanceResult = [relevant |-> TRUE, reason |-> "verdict"]
        /\ job[s].posted = {"relevant"}
        /\ job[s].payload.relevanceReason = "verdict"

\* What postToDiscord is given as heuristicResult.hit for the fetched text.
HeuristicAttached(siteId) ==
    IF checkHeuristic(job[siteId].currentText, SiteOf(siteId)) THEN "hit" ELSE "miss"

\* C13 as stated: every loose-mode cycle that detected a change ends having
\* posted a 'loose' notification.
C13_LooseAlwaysNotifies ==
    [][\A s \in SiteIds :
          (~Strict(s) /\ ChangeDetected(s) /\ Completes(s)) =>
              "loose" \in job[s].posted]_vars

\* C13, amended: a loose-mode cycle that detected a change decides to notify
\* whatever the heuristic says, with no classifier verdict entering the
\* decision; once its baseline is written and the summary is made it posts a
\* 'loose' notification carrying the heuristic result, and no 'relevant' one.
C13_LooseNotifiesOnceWritten ==
    \A s \in SiteIds :
        (~Strict(s) /\ ChangeDetected(s)) =>
            /\ job[s].relevanceResult = NoResult
            /\ "relevant" \notin job[s].posted
            /\ job[s].pc \in {"write", "summarize", "post"} => job[s].shouldNotify
            /\ (job[s].wrote /\ InFlight(s)) =>
                   job[s].pc = "summarize" \/ "loose" \in job[s].posted
            /\ "loose" \in job[s].posted =>
                   /\ job[s].payload.heuristicResult = HeuristicAttached(s)
                   /\ job[s].wrote

\* A loose-mode cycle found a change the heuristic misses and its 'loose'
\* notification is on its way, marked as a miss.
C13_Witness ==
    \E s \in SiteIds :
        /\ ~Strict(s)
        /\ ChangeDetected(s)
        /\ job[s].pc = "post"
        /\ ~checkHeuristic(job[s].currentText, SiteOf(s))
        /\ job[s].posted = {"loose"}
        /\ job[s].payload.heuristicResult = "miss"

\* ---------------------------------------------------------------------------
\* The classifier (relevance.ts), examined on its own
\* ---------------------------------------------------------------------------

\* A JSON value as JavaScript sees it: its typeof and its text.
Undefined == [t |-> "undefined", v |-> ""]

BooleanValues == {[t |-> "boolean", v |-> "true"], [t |-> "boolean", v |-> "false"]}

RelevantValues == BooleanValues \cup {[t |-> "string", v |-> "yes"], Undefined}

ReasonValues == {[t |-> "string", v |-> "dates opened"], [t |-> "number", v |-> "1"], Undefined}

SummaryValues == {[t |-> "string", v |-> "new dates listed"], [t |-> "number", v |-> "2"], Undefined}

\* What the chat completion call can give back: a rejection with its message, or
\* a reply whose content is absent, blank, prose, or the JSON text of null, of a
\* number or of an object.
ContentForms == {"undefined", "blank", "prose", "null", "number"}

Responses ==
    { [threw |-> TRUE, message |-> m, form |-> "none",
       relevant |-> Undefined, reason |-> Undefined, summary |-> Undefined]
        : m \in {"Connection error.", "Request timed out."} }
    \cup
    { [threw |-> FALSE, message |-> "", form |-> f,
       relevant |-> Undefined, reason |-> Undefined, summary |-> Undefined]
        : f \in ContentForms }
    \cup
    { [threw |-> FALSE, message |-> "", form |-> "object",
       relevant |-> r, reason |-> x, summary |-> y]
        : r \in RelevantValues, x \in ReasonValues, y \in SummaryValues }

\* The outcome of a piece of code that can throw.
Value(v) == [ok |-> TRUE, value |-> v, message |-> ""]

Throw(message) == [ok |-> FALSE, value |-> Undefined, message |-> message]

\* response.choices[0]?.message?.content?.trim() is falsy for a missing and for
\* a blank content.
noContent(response) == response.form \in {"undefined", "blank"}

\* JSON.parse(content): prose is a SyntaxError; null and a number parse.
JSONparse(response) ==
    IF response.form = "prose"
    THEN Throw("Unexpected token S in JSON at position 0")
    ELSE Value(response.form)

\* typeof result.relevant on the parsed value: reading a property of null is a
\* TypeError, a number has no such property.
typeofField(response, field) ==
    IF response.form = "object" THEN response[field].t ELSE "undefined"

validFormat_any(response, withSummary) == TRUE

\* The format check of the parsed result.
validFormat(response, withSummary) ==
    /\ typeofField(response, "relevant") = "boolean"
    /\ typeofField(response, "reason") = "string"
    /\ withSummary => typeofField(response, "summary") = "string"

\* The try block: the call, the content, the parse, the format check.
tryClassify(response, withSummary) ==
    IF response.threw THEN Throw(response.message)
    ELSE IF noContent(response) THEN Throw("Empty response from GPT")
    ELSE IF ~JSONparse(response).ok THEN JSONparse(response)
    ELSE IF response.form = "null"
         THEN Throw("Cannot read properties of null (reading 'relevant')")
    ELSE IF ~validFormat(response, withSummary)
         THEN Throw("Invalid response format from GPT")
    ELSE Value("result")

\* What the parsed object gives for a field the result keeps.
fieldText(response, field) ==
    IF response.form = "object" THEN response[field].v ELSE ""

FallbackSummary == "Change detected but analysis failed. Manual review recommended."

classifyRelevance(response) ==
    LET tried == tryClassify(response, FALSE) IN
    IF tried.ok
    THEN [done |-> TRUE, threw |-> FALSE,
          relevant |-> fieldText(response, "relevant") = "true",
          reason |-> fieldText(response, "reason"),
          summary |-> ""]
    ELSE [done |-> TRUE, threw |-> FALSE,
          relevant |-> TRUE,
          reason |-> "Classification error: " \o tried.message,
          summary |-> ""]

analyzeChangeRelevanceAndSummary(response) ==
    LET tried == tryClassify(response, TRUE) IN
    IF tried.ok
    THEN [done |-> TRUE, threw |-> FALSE,
          relevant |-> fieldText(response, "relevant") = "true",
          reason |-> fieldText(response, "reason"),
          summary |-> fieldText(response, "summary")]
    ELSE [done |-> TRUE, threw |-> FALSE,
          relevant |-> TRUE,
          reason |-> "Analysis error: " \o tried.message,
          summary |-> FallbackSummary]

\* The scheduler at rest: nothing added, nothing running.
SchedulerAtRest ==
    /\ now = StartMs
    /\ schedules = << >>
    /\ workerQueue = << >>
    /\ activeWorkers = 0
    /\ maxConcurrency = 1
    /\ running = FALSE
    /\ siteAddOrder = 0
    /\ job = [s \in SiteIds |-> IdleJob]
    /\ executing = [s \in SiteIds |-> 0]
    /\ store = [s \in SiteIds |-> NoBaseline]
    /\ errorThrottleMap = [s \in SiteIds |-> NoEntry]
    /\ sharedBrowser = "null"
    /\ proc = "setup"
    /\ stopWaiting = FALSE
    /\ browserHandler = FALSE
    /\ sendBaselineNotice = FALSE
    /\ lastFetched = [s \in SiteIds |-> NeverFetched]

ClassifierInit ==
    /\ SchedulerAtRest
    /\ arg \in { [fn |-> f, response |-> r]
                   : f \in {"classifyRelevance", "analyzeChangeRelevanceAndSummary"},
                     r \in Responses }
    /\ ret = NoRet

ClassifyRelevanceCall ==
    /\ arg.fn = "classifyRelevance"
    /\ ~ret.done
    /\ ret' = classifyRelevance(arg.response)
    /\ UNCHANGED <<now, errorThrottleMap, schedulerVars, arg>>

AnalyzeCall ==
    /\ arg.fn = "analyzeChangeRelevanceAndSummary"
    /\ ~ret.done
    /\ ret' = analyzeChangeRelevanceAndSummary(arg.response)
    /\ UNCHANGED <<now, errorThrottleMap, schedulerVars, arg>>

ClassifierNext == ClassifyRelevanceCall \/ AnalyzeCall

ClassifierSpec == ClassifierInit /\ [][ClassifierNext]_vars

\* The failure a response is, if any, in the claim's terms: the call threw, the
\* reply was empty, it did not parse, or it lacks a well-typed field.
WellTyped(response, withSummary) ==
    /\ response.form = "object"
    /\ response.relevant \in BooleanValues
    /\ response.reason.t = "string"
    /\ withSummary => response.summary.t = "string"

FailureText(response) ==
    CASE response.threw -> response.message
      [] response.form \in {"undefined", "blank"} -> "Empty response from GPT"
      [] response.form = "prose" -> "Unexpected token S in JSON at position 0"
      [] response.form = "null" -> "Cannot read properties of null (reading 'relevant')"
      [] OTHER -> "Invalid response format from GPT"

ErrorPrefix == [classifyRelevance |-> "Classification error: ",
                analyzeChangeRelevanceAndSummary |-> "Analysis error: "]

Called == arg.fn \in DOMAIN ErrorPrefix /\ ret.done

\* C14: when the classifier call throws, or the reply is empty, unparseable or
\* lacks a boolean relevant, a string reason (and, for the combined call, a
\* string summary), the result is relevant = true with the failure text as its
\* reason, and no exception leaves the function.
C14_FailsOpen ==
    (Called /\ ~WellTyped(arg.response, arg.fn = "analyzeChangeRelevanceAndSummary"))
        => /\ ret.relevant = TRUE
           /\ ret.reason = ErrorPrefix[arg.fn] \o FailureText(arg.response)
           /\ ~ret.threw

\* The combined call fell back on a reply that only lacks its summary.
C14_Witness ==
    /\ Called
    /\ arg.fn = "analyzeChangeRelevanceAndSummary"
    /\ arg.response.form = "object"
    /\ arg.response.relevant = [t |-> "boolean", v |-> "false"]
    /\ arg.response.reason.t = "string"
    /\ arg.response.summary = Undefined
    /\ ret.relevant
    /\ ret.reason = "Analysis error: Invalid response format from GPT"

\* ---------------------------------------------------------------------------
\* The heuristic (relevance.ts checkHeuristic), examined on its own
\* ---------------------------------------------------------------------------

\* Page texts: with and without a keyword, a hint, a built-in phrase, the date.
HeuristicTexts == {
    "",
    "menu",
    "Tables Available",
    "tables unavailable",
    "SOLD OUT today, available later",
    "Available 2025-10-21",
    "available 20251021",
    "Available 2025-10-22",
    "Fully Committed 2025-10-21 book",
    "join the waitlist, tables open 20251021",
    "No Openings" }

\* The fields of a site's configuration checkHeuristic reads.
HeuristicSites ==
    { [goal_keywords |-> k, goal_negative_hints |-> h, goal_date |-> d]
        : k \in {{}, {"available"}, {"Book", "Tables"}},
          h \in {{}, {"sold out"}, {"Waitlist"}},
          d \in {"", "2025-10-21"} }

HeuristicInit ==
    /\ SchedulerAtRest
    /\ arg \in { [fn |-> "checkHeuristic", text |-> t, site |-> c]
                   : t \in HeuristicTexts, c \in HeuristicSites }
    /\ ret = NoRet

CheckHeuristicCall ==
    /\ arg.fn = "checkHeuristic"
    /\ ~ret.done
    /\ ret' = [done |-> TRUE, hit |-> checkHeuristic(arg.text, arg.site)]
    /\ UNCHANGED <<now, errorThrottleMap, schedulerVars, arg>>

HeuristicNext == CheckHeuristicCall

HeuristicSpec == HeuristicInit /\ [][HeuristicNext]_vars

\* The phrase occurs in the text, letter case aside.
ContainsPhrase(text, phrase) == includes(toLowerCase(text), toLowerCase(phrase))

PositiveOccurs == \E keyword \in arg.site.goal_keywords : ContainsPhrase(arg.text, keyword)

NegativeOccurs ==
    \/ \E hint \in arg.site.goal_negative_hints : ContainsPhrase(arg.text, hint)
    \/ \E phrase \in BuiltInNegativeHints : ContainsPhrase(arg.text, phrase)

\* The date as configured (YYYY-MM-DD) or its eight digits occur in the text.
DateOccurs ==
    \/ includes(arg.text, arg.site.goal_date)
    \/ includes(arg.text, condensedDate(arg.site.goal_date))

HeuristicDone == arg.fn = "checkHeuristic" /\ ret.done

\* C15: a text that contains, letter case aside, a configured negative hint or
\* a built-in negative phrase never gives a hit, whatever keywords and date it
\* also contains.
C15_NegativeVetoes == (HeuristicDone /\ NegativeOccurs) => ~ret.hit

\* A keyword and the date are there, and the built-in phrase alone vetoes.
C15_Witness ==
    /\ HeuristicDone
    /\ arg.text = "Fully Committed 2025-10-21 book"
    /\ arg.site.goal_negative_hints = {}
    /\ PositiveOccurs
    /\ arg.site.goal_date # "" /\ DateOccurs
    /\ ~ret.hit

\* C16: the hit flag is true exactly when a positive keyword occurs, no
\* negative hint occurs and, if a goal date is configured, the date occurs in
\* its ISO or its condensed form.
C16_HitExactly ==
    HeuristicDone =>
        (ret.hit <=> /\ PositiveOccurs
                     /\ ~NegativeOccurs
                     /\ arg.site.goal_date # "" => DateOccurs)

\* A hit on the condensed form of the date alone.
C16_Witness ==
    /\ HeuristicDone
    /\ ret.hit
    /\ arg.site.goal_date = "2025-10-21"
    /\ ~includes(arg.text, "2025-10-21")
    /\ includes(arg.text, "20251021")

\* ---------------------------------------------------------------------------
\* The error throttle (notify.ts), examined on its own
\* ---------------------------------------------------------------------------

\* The clock step of this examination, ms, and the number of steps.
ThrottleTickMs == 300000

MaxThrottleTicks == 7

\* The number of job failures followed.
MaxErrors == 3

\* The period of the cleanup timer.
CLEANUP_INTERVAL_MS == 1800000

\* shouldThrottleError on an entry: there is none, or it is older than the
\* window.  ret.unswept is the map as it would be had no sweep ever run.
entryExpired(lastError) ==
    lastError = NoEntry \/ now - lastError > THROTTLE_INTERVAL_MS

sweepRemoves_all(timestamp) == TRUE

\* The cleanup callback's test: timestamp < cutoff.
sweepRemoves(timestamp) == timestamp < now - THROTTLE_INTERVAL_MS

ThrottleInit ==
    /\ SchedulerAtRest
    /\ arg = [fn |-> "shouldThrottleError"]
    /\ ret = [done |-> FALSE, log |-> << >>, lastSweep |-> StartMs,
              unswept |-> [s \in SiteIds |-> NoEntry]]

\* The catch block of processSite for a failed job of the site: the error is
\* notified unless shouldThrottleError says to suppress it.
ErrorHandling(siteId) ==
    /\ arg.fn = "shouldThrottleError"
    /\ Len(ret.log) < MaxErrors
    /\ errorThrottleMap' = IF throttleOpen(siteId)
                           THEN [errorThrottleMap EXCEPT ![siteId] = now]
                           ELSE errorThrottleMap
    /\ ret' = [ret EXCEPT
                 !.log = Append(@, [siteId |-> siteId, at |-> now,
                                    notified |-> throttleOpen(siteId),
                                    before |-> errorThrottleMap,
                                    after |-> errorThrottleMap',
                                    unsweptBefore |-> ret.unswept,
                                    notifiedUnswept |-> entryExpired(ret.unswept[siteId])]),
                 !.unswept = IF entryExpired(ret.unswept[siteId])
                             THEN [ret.unswept EXCEPT ![siteId] = now]
                             ELSE ret.unswept]
    /\ UNCHANGED <<now, schedulerVars, arg>>

\* The cleanup timer's callback: entries older than the window are deleted.
Sweep ==
    /\ arg.fn = "shouldThrottleError"
    /\ now - ret.lastSweep >= CLEANUP_INTERVAL_MS
    /\ errorThrottleMap' =
           [s \in SiteIds |->
               IF errorThrottleMap[s] # NoEntry /\ sweepRemoves(errorThrottleMap[s])
               THEN NoEntry ELSE errorThrottleMap[s]]
    /\ ret' = [ret EXCEPT !.lastSweep = now]
    /\ UNCHANGED <<now, schedulerVars, arg>>

ThrottleTick ==
    /\ arg.fn = "shouldThrottleError"
    /\ now < StartMs + MaxThrottleTicks * ThrottleTickMs
    /\ now' = now + ThrottleTickMs
    /\ UNCHANGED <<errorThrottleMap, schedulerVars, callVars>>

ThrottleNext ==
    \/ \E siteId \in SiteIds : ErrorHandling(siteId)
    \/ Sweep
    \/ ThrottleTick

ThrottleSpec == ThrottleInit /\ [][ThrottleNext]_vars

\* Two failures of one site whose error handling ran within the window.
CloseFailures(i, j) ==
    /\ i < j
    /\ ret.log[i].siteId = ret.log[j].siteId
    /\ ret.log[j].at - ret.log[i].at <= THROTTLE_INTERVAL_MS

\* The number of error notifications the two failures produced.
Notifications(i, j) ==
    (IF ret.log[i].notified THEN 1 ELSE 0) + (IF ret.log[j].notified THEN 1 ELSE 0)

\* An earlier failure of the same site was notified within the window before
\* failure i.
NotifiedShortlyBefore(i) ==
    \E k \in 1..(i - 1) :
        /\ ret.log[k].siteId = ret.log[i].siteId
        /\ ret.log[k].notified
        /\ ret.log[i].at - ret.log[k].at <= THROTTLE_INTERVAL_MS

\* C17 as stated: any two failures of a site handled within 10 minutes of each
\* other produce exactly one error notification.
C17_ExactlyOnePerPair ==
    \A i \in 1..Len(ret.log), j \in 1..Len(ret.log) :
        CloseFailures(i, j) => Notifications(i, j) = 1

\* C17: two failures of a site handled within 10 minutes of each other never
\* both produce an error notification; they produce exactly one when the first
\* of them is notified, which it is unless an earlier failure of the site was
\* notified in the 10 minutes before it, and otherwise the second is notified
\* only when more than 10 minutes have passed since that earlier notification.
C17_AtMostOnePerPair ==
    \A i \in 1..Len(ret.log), j \in 1..Len(ret.log) :
        CloseFailures(i, j) =>
            /\ Notifications(i, j) <= 1
            /\ ret.log[i].notified <=> ~NotifiedShortlyBefore(i)
            /\ ret.log[i].notified => Notifications(i, j) = 1
            /\ ret.log[j].notified => ~NotifiedShortlyBefore(j)

\* A notified failure, then two failures within the window that are both
\* suppressed.
C17_Witness ==
    /\ Len(ret.log) = 3
    /\ ret.log[1].notified
    /\ CloseFailures(1, 2) /\ CloseFailures(2, 3)
    /\ ret.log[2].at > ret.log[1].at
    /\ ret.log[3].at > ret.log[2].at
    /\ Notifications(2, 3) = 0

\* ---------------------------------------------------------------------------
\* Text normalisation (hash.ts normalizeText), examined on its own
\* ---------------------------------------------------------------------------

\* The longest text normalised.
MaxLen == 5

\* The character U+200B (zero-width space), written here as a bar.
ZWSP == "|"

\* An ordinary character, two whitespace characters and the zero-width space.
NormalizeAlphabet == {"a", " ", "\t", ZWSP}

RECURSIVE TextsOfLen(_, _)
TextsOfLen(alphabet, n) ==
    IF n = 0 THEN {""}
    ELSE {c \o t : c \in alphabet, t \in TextsOfLen(alphabet, n - 1)}

TextsUpTo(alphabet, n) == UNION {TextsOfLen(alphabet, k) : k \in 0..n}

\* The regular expression class \s on the characters of the model; U+200B is
\* not in it.
isWhitespace(c) == c \in {" ", "\t", "\n"}

Head1(text) == SubSeq(text, 1, 1)

Tail1(text) == SubSeq(text, 2, Len(text))

\* The text without its leading whitespace.
RECURSIVE trimStart(_)
trimStart(text) ==
    IF text # "" /\ isWhitespace(Head1(text)) THEN trimStart(Tail1(text)) ELSE text

\* The text without its trailing whitespace.
RECURSIVE trimEnd(_)
trimEnd(text) ==
    IF text # "" /\ isWhitespace(SubSeq(text, Len(text), Len(text)))
    THEN trimEnd(SubSeq(text, 1, Len(text) - 1))
    ELSE text

\* String.prototype.trim
trim(text) == trimEnd(trimStart(text))

\* text.replace(/\s+/g, ' '): every run of whitespace becomes one space.
RECURSIVE collapseWhitespace(_)
collapseWhitespace(text) ==
    IF text = "" THEN ""
    ELSE IF isWhitespace(Head1(text))
         THEN " " \o collapseWhitespace(trimStart(text))
         ELSE Head1(text) \o collapseWhitespace(Tail1(text))

\* text.replace(/\u200B/g, ''): every zero-width space is removed.
RECURSIVE removeZeroWidth(_)
removeZeroWidth(text) ==
    IF text = "" THEN ""
    ELSE IF Head1(text) = ZWSP
         THEN removeZeroWidth(Tail1(text))
         ELSE Head1(text) \o removeZeroWidth(Tail1(text))

\* hash.ts normalizeText
normalizeText(text) == trim(removeZeroWidth(collapseWhitespace(text)))

NormalizeInit ==
    /\ SchedulerAtRest
    /\ arg \in { [fn |-> "normalizeText", text |-> t]
                   : t \in TextsUpTo(NormalizeAlphabet, MaxLen) }
    /\ ret = [done |-> FALSE, calls |-> 0, first |-> "", value |-> ""]

\* normalizeText applied to the text.
NormalizeCall ==
    /\ arg.fn = "normalizeText"
    /\ ret.calls = 0
    /\ ret' = [done |-> FALSE, calls |-> 1, first |-> normalizeText(arg.text),
               value |-> normalizeText(arg.text)]
    /\ UNCHANGED <<now, errorThrottleMap, schedulerVars, arg>>

\* normalizeText applied to its own result.
NormalizeAgain ==
    /\ arg.fn = "normalizeText"
    /\ ret.calls = 1
    /\ ret' = [ret EXCEPT !.done = TRUE, !.calls = 2, !.value = normalizeText(ret.value)]
    /\ UNCHANGED <<now, errorThrottleMap, schedulerVars, arg>>

NormalizeNext == NormalizeCall \/ NormalizeAgain

NormalizeSpec == NormalizeInit /\ [][NormalizeNext]_vars

\* C19: normalizeText is idempotent on texts of ordinary characters, whitespace
\* and zero-width spaces: applying it to its own result changes nothing.
C19_Idempotent ==
    (arg.fn = "normalizeText" /\ ret.calls = 2) => ret.value = ret.first

\* ---------------------------------------------------------------------------
\* Fingerprints (hash.ts applyScrubPatterns, processText, sha256)
\* ---------------------------------------------------------------------------

\* The longest text fingerprinted.
PairLen == 3

\* Two ordinary characters, a whitespace character and the zero-width space.
FingerprintAlphabet == {"a", "b", " ", ZWSP}

\* new RegExp(pattern, flags) throws for a pattern that is no regular expression.
validRegExp(p) == p.pattern # "(" /\ p.flags \in {"", "g"}

\* text.replace(regex, '') for a literal pattern without the g flag: the first
\* occurrence is removed.
RECURSIVE replaceFirst(_, _)
replaceFirst(text, literal) ==
    IF Len(text) < Len(literal) THEN text
    ELSE IF SubSeq(text, 1, Len(literal)) = literal
         THEN SubSeq(text, Len(literal) + 1, Len(text))
         ELSE Head1(text) \o replaceFirst(Tail1(text), literal)

\* text.replace(regex, '') for a literal pattern with the g flag: every
\* occurrence, found left to right, is removed.
RECURSIVE replaceAll(_, _)
replaceAll(text, literal) ==
    IF Len(text) < Len(literal) THEN text
    ELSE IF SubSeq(text, 1, Len(literal)) = literal
         THEN replaceAll(SubSeq(text, Len(literal) + 1, Len(text)), literal)
         ELSE Head1(text) \o replaceAll(Tail1(text), literal)

\* A variant whose scrubbing is abandoned at an invalid pattern.
scrubOne_clears(text, p) ==
    IF ~validRegExp(p) THEN ""
    ELSE IF p.flags = "g" THEN replaceAll(text, p.pattern)
    ELSE replaceFirst(text, p.pattern)

\* One turn of the scrub loop: an invalid pattern is skipped.
scrubOne(text, p) ==
    IF ~validRegExp(p) THEN text
    ELSE IF p.flags = "g" THEN replaceAll(text, p.pattern)
    ELSE replaceFirst(text, p.pattern)

\* hash.ts applyScrubPatterns: the patterns applied in order.
RECURSIVE applyScrubPatterns(_, _)
applyScrubPatterns(text, patterns) ==
    IF patterns = << >> THEN text
    ELSE applyScrubPatterns(scrubOne(text, Head(patterns)), Tail(patterns))

\* The scrub loop processText carries out itself.
RECURSIVE processTextLoop(_, _)
processTextLoop(processedText, scrubPatterns) ==
    IF scrubPatterns = << >> THEN processedText
    ELSE processTextLoop(scrubOne(processedText, Head(scrubPatterns)), Tail(scrubPatterns))

processText_noScrub(text, scrubPatterns) ==
    trim(removeZeroWidth(collapseWhitespace(text)))

\* hash.ts processText: scrub, then collapse, remove, trim.
processText(text, scrubPatterns) ==
    trim(removeZeroWidth(collapseWhitespace(processTextLoop(text, scrubPatterns))))

\* site.scrub_patterns: none, a literal once, a literal everywhere, and a list
\* with an invalid pattern.
ScrubPatternLists == {
    << >>,
    << [pattern |-> "a", flags |-> ""] >>,
    << [pattern |-> "a", flags |-> "g"] >>,
    << [pattern |-> "b ", flags |-> "g"], [pattern |-> "a", flags |-> ""] >>,
    << [pattern |-> "(", flags |-> ""], [pattern |-> "b", flags |-> "g"] >> }

FingerprintInit ==
    /\ SchedulerAtRest
    /\ arg \in { [fn |-> "processText", texts |-> <<t1, t2>>, scrub_patterns |-> p]
                   : t1 \in TextsUpTo(FingerprintAlphabet, PairLen),
                     t2 \in TextsUpTo(FingerprintAlphabet, PairLen),
                     p \in ScrubPatternLists }
    /\ ret = [done |-> FALSE, baselineHash |-> << >>, currentHash |-> << >>]

\* An earlier cycle fetched the first text and stored its fingerprint; this
\* cycle fetches the second and computes its fingerprint.
FingerprintBoth ==
    /\ arg.fn = "processText"
    /\ ~ret.done
    /\ ret' = [done |-> TRUE,
               baselineHash |-> sha256(processText(arg.texts[1], arg.scrub_patterns)),
               currentHash |-> sha256(processText(arg.texts[2], arg.scrub_patterns))]
    /\ UNCHANGED <<now, errorThrottleMap, schedulerVars, arg>>

FingerprintNext == FingerprintBoth

FingerprintSpec == FingerprintInit /\ [][FingerprintNext]_vars

\* A page text scrubbed, then normalised.
ScrubbedThenNormalized(text) ==
    normalizeText(applyScrubPatterns(text, arg.scrub_patterns))

Fingerprinted == arg.fn = "processText" /\ ret.done

\* C20: the fingerprints the Site Job compares are equal exactly when the two
\* page texts, scrubbed and then normalised, are equal.
C20_EqualIffSameNormalized ==
    Fingerprinted =>
        (ret.currentHash = ret.baselineHash
            <=> ScrubbedThenNormalized(arg.texts[1]) = ScrubbedThenNormalized(arg.texts[2]))

\* Two different page texts that only scrubbing and normalising make equal.
C20_Witness ==
    /\ Fingerprinted
    /\ arg.texts = <<"a b", " |b">>
    /\ arg.scrub_patterns = << [pattern |-> "a", flags |-> "g"] >>
    /\ normalizeText(arg.texts[1]) # normalizeText(arg.texts[2])
    /\ ret.currentHash = ret.baselineHash

\* ---------------------------------------------------------------------------
\* The fetch (scrape.ts scrapeSite, scrapeWithRetry), examined on its own
\* ---------------------------------------------------------------------------

\* scrapeWithRetry: maxAttempts
maxAttempts == 2

\* How an attempt can end: the page text is extracted; newContext throws before
\* the try block is entered; or a step of the try block throws, with a timeout
\* or with another error.
AttemptOutcomes == {
    [kind |-> "text", stage |-> "page", text |-> " menu\t", message |-> ""],
    [kind |-> "text", stage |-> "page", text |-> "Tables  Available", message |-> ""],
    [kind |-> "timeout", stage |-> "page", text |-> "",
     message |-> "page.goto: Timeout 90000ms exceeded."],
    [kind |-> "timeout", stage |-> "page", text |-> "",
     message |-> "locator.innerText: Timeout 30000ms exceeded."],
    [kind |-> "timeout", stage |-> "newContext", text |-> "",
     message |-> "browserType.launch: Timeout 180000ms exceeded."],
    [kind |-> "error", stage |-> "page", text |-> "",
     message |-> "page.goto: net::ERR_NAME_NOT_RESOLVED at https://example.com/"],
    [kind |-> "error", stage |-> "page", text |-> "",
     message |-> "page.goto: Navigation failed because page crashed!"] }

NoFetch == [done |-> FALSE, pc |-> "idle", attempt |-> 0, attempts |-> 0,
            text |-> "", error |-> ""]

FetchInit ==
    /\ SchedulerAtRest
    /\ arg \in { [fn |-> "scrapeSite", outcomes |-> <<o1, o2>>, scrub_patterns |-> << >>]
                   : o1 \in AttemptOutcomes, o2 \in AttemptOutcomes }
    /\ ret = NoFetch

retries_always(attempt, errorMessage) == attempt < maxAttempts

\* The test of the catch block: attempt < maxAttempts and the message has
\* 'Timeout' in it.
retries(attempt, errorMessage) ==
    attempt < maxAttempts /\ includes(errorMessage, "Timeout")

\* scrapeSite: scrapeWithRetry(site, 1) is entered.
scrapeSite ==
    /\ arg.fn = "scrapeSite"
    /\ ret.pc = "idle"
    /\ ret' = [ret EXCEPT !.pc = "attempt", !.attempt = 1, !.attempts = 1]
    /\ UNCHANGED <<now, errorThrottleMap, schedulerVars, arg>>

\* newContext throws: the error leaves scrapeWithRetry, no handler is entered.
NewContextThrows ==
    /\ arg.fn = "scrapeSite"
    /\ ret.pc = "attempt"
    /\ arg.outcomes[ret.attempt].stage = "newContext"
    /\ ret' = [ret EXCEPT !.done = TRUE, !.pc = "thrown",
                          !.error = arg.outcomes[ret.attempt].message]
    /\ UNCHANGED <<now, errorThrottleMap, schedulerVars, arg>>

\* The try block completes: the processed text is returned.
AttemptReturns ==
    /\ arg.fn = "scrapeSite"
    /\ ret.pc = "attempt"
    /\ arg.outcomes[ret.attempt].stage = "page"
    /\ arg.outcomes[ret.attempt].kind = "text"
    /\ ret' = [ret EXCEPT !.done = TRUE, !.pc = "returned",
                          !.text = processText(arg.outcomes[ret.attempt].text,
                                               arg.scrub_patterns)]
    /\ UNCHANGED <<now, errorThrottleMap, schedulerVars, arg>>

\* The try block throws: the catch block retries or rethrows.
AttemptThrows ==
    /\ arg.fn = "scrapeSite"
    /\ ret.pc = "attempt"
    /\ arg.outcomes[ret.attempt].stage = "page"
    /\ arg.outcomes[ret.attempt].kind # "text"
    /\ ret' = IF retries(ret.attempt, arg.outcomes[ret.attempt].message)
              THEN [ret EXCEPT !.pc = "retryWait"]
              ELSE [ret EXCEPT !.done = TRUE, !.pc = "thrown",
                               !.error = arg.outcomes[ret.attempt].message]
    /\ UNCHANGED <<now, errorThrottleMap, schedulerVars, arg>>

\* The context is closed, two seconds pass, scrapeWithRetry(site, attempt + 1)
\* is entered.
RetryAfterWait ==
    /\ arg.fn = "scrapeSite"
    /\ ret.pc = "retryWait"
    /\ ret' = [ret EXCEPT !.pc = "attempt", !.attempt = @ + 1, !.attempts = @ + 1]
    /\ UNCHANGED <<now, errorThrottleMap, schedulerVars, arg>>

FetchNext ==
    \/ scrapeSite
    \/ NewContextThrows
    \/ AttemptReturns
    \/ AttemptThrows
    \/ RetryAfterWait

FetchSpec == FetchInit /\ [][FetchNext]_vars

\* The fetch has returned or thrown.
FetchEnded == arg.fn = "scrapeSite" /\ ret.pc \in {"returned", "thrown"}

FirstOutcome == arg.outcomes[1]

SecondOutcome == arg.outcomes[2]

\* C18: a cycle makes at most two fetch attempts; the second is made only when
\* the first failed with a timeout; a failure that is no timeout, and a second
\* timeout, are thrown to the caller without another attempt.
C18_OneRetryOnTimeout ==
    arg.fn = "scrapeSite" =>
        /\ ret.attempts <= 2
        /\ ret.attempts = 2 => FirstOutcome.kind = "timeout"
        /\ (ret.attempts >= 1 /\ ret.pc # "attempt" /\ FirstOutcome.kind = "error")
               => /\ ret.pc = "thrown"
                  /\ ret.attempts = 1
                  /\ ret.error = FirstOutcome.message
        /\ (ret.attempts = 2 /\ ret.pc # "attempt" /\ SecondOutcome.kind # "text")
               => /\ ret.pc = "thrown"
                  /\ ret.error = SecondOutcome.message

\* The first attempt timed out, the second timed out too and was thrown.
C18_Witness ==
    /\ FetchEnded
    /\ ret.attempts = 2
    /\ FirstOutcome = [kind |-> "timeout", stage |-> "page", text |-> "",
                       message |-> "page.goto: Timeout 90000ms exceeded."]
    /\ SecondOutcome.kind = "timeout" /\ SecondOutcome.stage = "page"
    /\ ret.pc = "thrown"
    /\ ret.error = SecondOutcome.message

\* ---------------------------------------------------------------------------
\* Staggered registration (SiteScheduler.addSite), examined on its own
\* ---------------------------------------------------------------------------

\* The largest number of sites registered.
MaxStaggerSites == 5

StaggerInit ==
    /\ SchedulerAtRest
    /\ arg \in { [fn |-> "addSite", sites |-> n] : n \in 3..MaxStaggerSites }
    /\ ret = [done |-> FALSE, added |-> << >>]

\* addSite for the next site of main()'s loop: siteAddOrder and
\* schedules.size both equal the number of sites added so far.
AddNextSite ==
    /\ arg.fn = "addSite"
    /\ Len(ret.added) < arg.sites
    /\ \E r \in RandomSamples :
         LET siteIndex == Len(ret.added)
             totalSites == Len(ret.added) + 1
         IN  ret' = [done |-> Len(ret.added) + 1 = arg.sites,
                     added |-> Append(ret.added,
                         [offset |-> staggerDelayMs(siteIndex, totalSites),
                          nextRunAt |-> calculateStaggeredStartTime(siteIndex, totalSites, r)])]
    /\ UNCHANGED <<now, errorThrottleMap, schedulerVars, arg>>

StaggerNext == AddNextSite

StaggerSpec == StaggerInit /\ [][StaggerNext]_vars

\* C21: once N >= 3 sites are registered, their stagger offsets are strictly
\* increasing in registration order and range from 0 to the startup window.
C21_OffsetsSpread ==
    (arg.fn = "addSite" /\ ret.done) =>
        /\ ret.added[1].offset = 0
        /\ ret.added[Len(ret.added)].offset = staggerWindowMs
        /\ \A i \in 1..(Len(ret.added) - 1) :
               ret.added[i].offset < ret.added[i + 1].offset

\* ---------------------------------------------------------------------------
\* The baseline file (baseline.ts), examined on its own
\* ---------------------------------------------------------------------------

\* JSON.stringify(baseline, null, 2), shortened: the fields in order.
stringify(baseline) ==
    "{hash:" \o baseline.hash[2] \o ",text:" \o baseline.text \o "}"

\* The records the file of a site can hold.
FileBaselines == {OldBaseline("menu"), OldBaseline("Tables Available")}

\* No file at the site's path.
NoFile == [exists |-> FALSE, content |-> ""]

\* JSON.parse(content) in readBaseline: only a complete text parses.
parseBaseline(content) ==
    IF \E b \in FileBaselines : stringify(b) = content
    THEN CHOOSE b \in FileBaselines : stringify(b) = content
    ELSE NoBaseline

\* baseline.ts readBaseline on the file: a missing file and a text that does
\* not parse both end in the catch, which returns null.
readBaselineFile(file) ==
    IF file.exists THEN parseBaseline(file.content) ELSE NoBaseline

\* The file a complete write of the record leaves.
FileOf(baseline) ==
    IF baseline = NoBaseline THEN NoFile
    ELSE [exists |-> TRUE, content |-> stringify(baseline)]

BaselineFileInit ==
    /\ SchedulerAtRest
    /\ arg \in { [fn |-> "writeBaseline", previous |-> b0, baseline |-> b1]
                   : b0 \in FileBaselines \cup {NoBaseline}, b1 \in FileBaselines }
    /\ ret = [done |-> FALSE, pc |-> "idle", file |-> FileOf(arg.previous),
              pending |-> "", reads |-> 0, read |-> NoBaseline]

\* writeBaseline up to the open of writeFile: the file is created or truncated.
WriteOpen ==
    /\ arg.fn = "writeBaseline"
    /\ ret.pc = "idle"
    /\ ~ret.done
    /\ ret' = [ret EXCEPT !.pc = "writing",
                          !.file = [exists |-> TRUE, content |-> ""],
                          !.pending = stringify(arg.baseline)]
    /\ UNCHANGED <<now, errorThrottleMap, schedulerVars, arg>>

\* writeFile writes some more of the text; with the last of it the write is done.
WriteMore ==
    /\ arg.fn = "writeBaseline"
    /\ ret.pc = "writing"
    /\ \E k \in 1..Len(ret.pending) :
         ret' = [ret EXCEPT
                   !.file = [exists |-> TRUE,
                             content |-> ret.file.content \o SubSeq(ret.pending, 1, k)],
                   !.pending = SubSeq(ret.pending, k + 1, Len(ret.pending)),
                   !.pc = IF k = Len(ret.pending) THEN "idle" ELSE "writing",
                   !.done = (k = Len(ret.pending))]
    /\ UNCHANGED <<now, errorThrottleMap, schedulerVars, arg>>

\* The process dies in the middle of the write; the file stays as it is.
Crash ==
    /\ arg.fn = "writeBaseline"
    /\ ret.pc = "writing"
    /\ ret' = [ret EXCEPT !.pc = "crashed", !.pending = ""]
    /\ UNCHANGED <<now, errorThrottleMap, schedulerVars, arg>>

\* readBaseline for the site: during the write, after it, or after the crash.
ReadFile ==
    /\ arg.fn = "writeBaseline"
    /\ ret.reads = 0
    /\ ret' = [ret EXCEPT !.reads = 1, !.read = readBaselineFile(ret.file)]
    /\ UNCHANGED <<now, errorThrottleMap, schedulerVars, arg>>

BaselineFileNext == WriteOpen \/ WriteMore \/ Crash \/ ReadFile

BaselineFileSpec == BaselineFileInit /\ [][BaselineFileNext]_vars

\* C23: whenever readBaseline runs, during a write or after a crash in the
\* middle of one, it returns the complete previous record or the complete new
\* record.
C23_AtomicOverwrite ==
    (arg.fn = "writeBaseline" /\ ret.reads = 1)
        => ret.read \in {arg.previous, arg.baseline}

\* ---------------------------------------------------------------------------
\* The configuration (config.ts loadSitesConfig), examined on its own
\* ---------------------------------------------------------------------------

\* GlobalConfig.GLOBAL_CHECK_MIN and GLOBAL_CHECK_MAX, at their defaults.
GLOBAL_CHECK_MIN == 4

GLOBAL_CHECK_MAX == 6

\* The URLs WATCH_URLS can list, by hostname.
WatchUrlLists == { << >>, << "site1.com" >>, << "site1.com", "site2.com" >> }

\* A site of sites.yaml; relevance_mode "" and check_min/check_max 0 stand for
\* fields the file leaves out.
FileSites == {
    [id |-> "menu-page", relevance_mode |-> "", check_min |-> 0, check_max |-> 0],
    [id |-> "menu-page", relevance_mode |-> "loose", check_min |-> 2, check_max |-> 3] }

\* CHECK_INTERVAL_MINUTES as parseNumber gives it: 240 when unset.
CheckIntervals == {30, 60, 90, 240}

Environments ==
    { [WATCH_URLS |-> w, sitesFile |-> f, TARGET_URL |-> t, CHECK_INTERVAL_MINUTES |-> c]
        : w \in WatchUrlLists,
          f \in {<< >>} \cup {<<y>> : y \in FileSites},
          t \in {"", "https://legacy.example/"},
          c \in CheckIntervals }

\* x || y on numbers
OrElse(x, y) == IF x = 0 THEN y ELSE x

\* config.ts createSimpleSiteFromUrl
createSimpleSiteFromUrl(hostname, index) ==
    [id |-> hostname \o "-" \o ToString(index + 1),
     relevance_mode |-> "strict",
     check_min |-> GLOBAL_CHECK_MIN, check_max |-> GLOBAL_CHECK_MAX]

\* loadSitesConfig: the site of the legacy fallback.
legacySite(env) ==
    [id |-> "legacy-site",
     relevance_mode |-> "loose",
     check_min |-> OrElse(OrElse(env.CHECK_INTERVAL_MINUTES, 240) \div 60, GLOBAL_CHECK_MIN),
     check_max |-> OrElse((OrElse(env.CHECK_INTERVAL_MINUTES, 240) + 59) \div 60,
                          GLOBAL_CHECK_MAX)]

\* loadSitesConfig: the defaults, overridden by the fields the site has.
mergeDefaults(site) ==
    [id |-> site.id,
     relevance_mode |-> IF site.relevance_mode = "" THEN "strict" ELSE site.relevance_mode,
     check_min |-> IF site.check_min = 0 THEN GLOBAL_CHECK_MIN ELSE site.check_min,
     check_max |-> IF site.check_max = 0 THEN GLOBAL_CHECK_MAX ELSE site.check_max]

\* config.ts loadSitesConfig: the sites, or << >> when it throws.
loadSitesConfig(env) ==
    IF env.WATCH_URLS # << >>
    THEN [i \in 1..Len(env.WATCH_URLS) |-> createSimpleSiteFromUrl(env.WATCH_URLS[i], i - 1)]
    ELSE IF env.sitesFile # << >>
    THEN [i \in 1..Len(env.sitesFile) |-> mergeDefaults(env.sitesFile[i])]
    ELSE IF env.TARGET_URL # ""
    THEN << mergeDefaults(legacySite(env)) >>
    ELSE << >>

\* processSite: whether a detected change is notified, given the heuristic
\* result and the verdict the classifier would give.
shouldNotifyChange(site, hit, verdict) ==
    IF runsClassifier(site, hit) THEN verdict ELSE notifiesUnclassified(site, hit)

NoCycle == [site |-> 0, changeSeen |-> FALSE, notified |-> FALSE,
            rescheduled |-> FALSE, delayMs |-> 0]

ConfigInit ==
    /\ SchedulerAtRest
    /\ arg \in { [fn |-> "loadSitesConfig", env |-> e] : e \in Environments }
    /\ ret = [done |-> FALSE, threw |-> FALSE, sites |-> << >>, cycle |-> NoCycle]

\* main(): the sites are loaded.
LoadSitesConfig ==
    /\ arg.fn = "loadSitesConfig"
    /\ ~ret.done
    /\ ret' = [ret EXCEPT !.done = TRUE,
                          !.sites = loadSitesConfig(arg.env),
                          !.threw = (loadSitesConfig(arg.env) = << >>)]
    /\ UNCHANGED <<now, errorThrottleMap, schedulerVars, arg>>

\* A cycle of a loaded site detects a change and decides on its notification.
ChangeCycle ==
    /\ arg.fn = "loadSitesConfig"
    /\ ret.done
    /\ ret.cycle = NoCycle
    /\ \E i \in 1..Len(ret.sites), hit \in BOOLEAN, verdict \in BOOLEAN :
         ret' = [ret EXCEPT !.cycle =
                    [NoCycle EXCEPT !.site = i, !.changeSeen = TRUE,
                                    !.notified = shouldNotifyChange(ret.sites[i], hit, verdict)]]
    /\ UNCHANGED <<now, errorThrottleMap, schedulerVars, arg>>

\* The cycle completes and scheduleNextRun draws the delay to the next one.
CycleRescheduled ==
    /\ arg.fn = "loadSitesConfig"
    /\ ret.cycle.changeSeen
    /\ ~ret.cycle.rescheduled
    /\ \E r \in RandomSamples :
         LET site == ret.sites[ret.cycle.site]
         IN  ret' = [ret EXCEPT !.cycle.rescheduled = TRUE,
                                !.cycle.delayMs =
                                    randomDelayMs(minMinutes(site), maxMinutes(site), r)]
    /\ UNCHANGED <<now, errorThrottleMap, schedulerVars, arg>>

ConfigNext == LoadSitesConfig \/ ChangeCycle \/ CycleRescheduled

ConfigSpec == ConfigInit /\ [][ConfigNext]_vars

\* The sites come from the WATCH_URLS list.
FromWatchUrls == arg.fn = "loadSitesConfig" /\ ret.done /\ arg.env.WATCH_URLS # << >>

\* Legacy single-site mode: only TARGET_URL is configured.
LegacyMode ==
    /\ arg.fn = "loadSitesConfig" /\ ret.done
    /\ arg.env.WATCH_URLS = << >>
    /\ arg.env.sitesFile = << >>
    /\ arg.env.TARGET_URL # ""

\* C24: every site created from WATCH_URLS runs in loose mode, so each change
\* detected on such a site is notified.
C24_WatchUrlsLoose ==
    FromWatchUrls =>
        /\ \A i \in 1..Len(ret.sites) : ret.sites[i].relevance_mode = "loose"
        /\ ret.cycle.changeSeen => ret.cycle.notified

\* C25: in legacy single-site mode the delay between consecutive checks is
\* CHECK_INTERVAL_MINUTES minutes.
C25_LegacyInterval ==
    (LegacyMode /\ ret.cycle.rescheduled)
        => ret.cycle.delayMs = arg.env.CHECK_INTERVAL_MINUTES * 60 * 1000

\* ---------------------------------------------------------------------------
\* Claims on delivery failures, the dispatcher and the worker queue
\* ---------------------------------------------------------------------------

\* The Site Job awaits the delivery of a change or baseline notification.
AwaitsDelivery(s) == job[s].pc \in {"post", "postBaseline"}

\* C22: a delivery failure of a change or baseline notification is only
\* logged: while the Site Job awaits the delivery, no step makes it attempt an
\* error notification or arms the site's error throttle.
C22_DeliveryFailureOnlyLogged ==
    [][\A s \in SiteIds :
          AwaitsDelivery(s) =>
              /\ "error" \notin job'[s].posted
              /\ errorThrottleMap'[s] = errorThrottleMap[s]]_vars

\* The step puts a job of the site on the worker queue.
Enqueues(s) ==
    Cardinality({i \in 1..Len(workerQueue') : workerQueue'[i] = s}) > QueueCount(s)

\* C26: a step enqueues a site only when the site's next-run time has passed
\* and its running flag is clear; so a site is not enqueued before the
\* staggered first-run time of its registration, nor between a job's
\* completion and the next-run time computed at that completion.
C26_EnqueuedOnlyWhenDue ==
    [][\A s \in SiteIds :
          Enqueues(s) => /\ schedules[s].nextRunAt <= now
                         /\ ~schedules[s].isRunning]_vars

\* A site with a completed job is on the queue again, its next-run time past.
C26_Witness ==
    \E s \in SiteIds :
        /\ QueueCount(s) = 1
        /\ job[s].outcome \in {"resolved", "rejected"}
        /\ schedules[s].nextRunAt <= now
        /\ schedules[s].nextRunAt > StartMs + TickMs

\* C27: a dispatcher round enqueues at most one site, however many are due,
\* and none when the number of active jobs has reached maxConcurrency.
C27_OnePerRound ==
    [][/\ Len(workerQueue') <= Len(workerQueue) + 1
       /\ activeWorkers >= maxConcurrency => Len(workerQueue') <= Len(workerQueue)]_vars

\* One site has been enqueued while another one, due and not running, was left
\* for a later round.
C27_Witness ==
    \E s \in SiteIds, t \in SiteIds :
        /\ s # t
        /\ workerQueue = <<s>>
        /\ activeWorkers = 0
        /\ \A u \in SiteIds : job[u].outcome = "none"
        /\ t \in DOMAIN schedules
        /\ ~schedules[t].isRunning
        /\ schedules[t].nextRunAt <= now
        /\ schedules[s].nextRunAt <= now

\* The step starts the Site Job of the site.
Starts(s) == job[s].pc # "scrape" /\ job'[s].pc = "scrape"

\* C28: jobs start in the order they were enqueued: the job a step starts is
\* the one at the head of the queue, which the dispatcher fills at the tail.
C28_StartsInQueueOrder ==
    [][\A s \in SiteIds : Starts(s) => workerQueue # << >> /\ s = Head(workerQueue)]_vars

\* Two jobs were waiting, and the first of them has started while the second
\* still waits: with one slot taken, nothing was enqueued after the start.
C28_Witness ==
    \E s \in SiteIds, t \in SiteIds :
        /\ s # t
        /\ maxConcurrency = 1
        /\ activeWorkers = 1
        /\ job[s].pc = "scrape"
        /\ workerQueue = <<t>>
        /\ job[t].outcome = "none"
        /\ schedules[s].nextRunAt <= schedules[t].nextRunAt

\* ---------------------------------------------------------------------------
\* Claims on shouldThrottleError and the sweep
\* ---------------------------------------------------------------------------

\* The entry of the call's own site before the i-th call.
EntryBefore(i) == ret.log[i].before[ret.log[i].siteId]

EntryAfter(i) == ret.log[i].after[ret.log[i].siteId]

\* C29: shouldThrottleError returns false and records the current time exactly
\* when the site has no entry or its entry is more than 10 minutes old;
\* otherwise it returns true and leaves the entry as it is; the entries of
\* other sites play no part and are not changed.
C29_ThrottleDecision ==
    arg.fn = "shouldThrottleError" =>
        \A i \in 1..Len(ret.log) :
            /\ ret.log[i].notified <=>
                   \/ EntryBefore(i) = NoEntry
                   \/ ret.log[i].at - EntryBefore(i) > THROTTLE_INTERVAL_MS
            /\ ret.log[i].notified => EntryAfter(i) = ret.log[i].at
            /\ ~ret.log[i].notified => EntryAfter(i) = EntryBefore(i)
            /\ \A t \in SiteIds \ {ret.log[i].siteId} :
                   ret.log[i].after[t] = ret.log[i].before[t]

\* An error suppressed exactly 10 minutes after the recorded one, while the
\* other site has an entry of its own.
C29_Witness ==
    /\ arg.fn = "shouldThrottleError"
    /\ \E i \in 1..Len(ret.log) :
          /\ ~ret.log[i].notified
          /\ ret.log[i].at - EntryBefore(i) = THROTTLE_INTERVAL_MS
          /\ \E t \in SiteIds \ {ret.log[i].siteId} : ret.log[i].before[t] # NoEntry

\* C30: the sweep is transparent: every shouldThrottleError call returns what it
\* would return had no sweep ever run.
C30_SweepTransparent ==
    arg.fn = "shouldThrottleError" =>
        \A i \in 1..Len(ret.log) : ret.log[i].notified = ret.log[i].notifiedUnswept

\* A call that found no entry because a sweep had removed it.
C30_Witness ==
    /\ arg.fn = "shouldThrottleError"
    /\ \E i \in 1..Len(ret.log) :
          /\ EntryBefore(i) = NoEntry
          /\ ret.log[i].unsweptBefore[ret.log[i].siteId] # NoEntry
          /\ ret.log[i].notified

\* ---------------------------------------------------------------------------
\* Scrubbing with patterns that do not compile (hash.ts), examined on its own
\* ---------------------------------------------------------------------------

\* Pattern lists with a pattern that is no regular expression, or with flags
\* RegExp rejects, at the head, in the middle and at the end.
InvalidPatternLists == {
    << [pattern |-> "(", flags |-> ""] >>,
    << [pattern |-> "(", flags |-> "g"], [pattern |-> "a", flags |-> "g"] >>,
    << [pattern |-> "ab", flags |-> ""], [pattern |-> "a", flags |-> "q"],
       [pattern |-> "b", flags |-> ""] >>,
    << [pattern |-> "a", flags |-> ""], [pattern |-> "b ", flags |-> "g"],
       [pattern |-> "(", flags |-> ""] >>,
    << [pattern |-> "(", flags |-> ""], [pattern |-> "a", flags |-> ""],
       [pattern |-> "b", flags |-> "q"], [pattern |-> "a", flags |-> ""] >> }

ScrubInit ==
    /\ SchedulerAtRest
    /\ arg \in { [fn |-> "applyScrubPatterns", text |-> t, patterns |-> p]
                   : t \in TextsUpTo(FingerprintAlphabet, PairLen),
                     p \in InvalidPatternLists \cup ScrubPatternLists }
    /\ ret = [done |-> FALSE, threw |-> FALSE, calls |-> {},
              scrubbedText |-> "", processedText |-> ""]

\* applyScrubPatterns(text, patterns): every RegExp error is caught in the loop.
ApplyScrubPatternsCall ==
    /\ arg.fn = "applyScrubPatterns"
    /\ ~ret.done
    /\ "applyScrubPatterns" \notin ret.calls
    /\ ret' = [ret EXCEPT !.done = "processText" \in ret.calls,
                          !.calls = @ \cup {"applyScrubPatterns"},
                          !.scrubbedText = applyScrubPatterns(arg.text, arg.patterns)]
    /\ UNCHANGED <<now, errorThrottleMap, schedulerVars, arg>>

\* processText(text, scrubPatterns), with the same loop inlined.
ProcessTextCall ==
    /\ arg.fn = "applyScrubPatterns"
    /\ ~ret.done
    /\ "processText" \notin ret.calls
    /\ ret' = [ret EXCEPT !.done = "applyScrubPatterns" \in ret.calls,
                          !.calls = @ \cup {"processText"},
                          !.processedText = processText(arg.text, arg.patterns)]
    /\ UNCHANGED <<now, errorThrottleMap, schedulerVars, arg>>

ScrubNext == ApplyScrubPatternsCall \/ ProcessTextCall

ScrubSpec == ScrubInit /\ [][ScrubNext]_vars

\* The list without the patterns that do not compile: "(" is no regular
\* expression and "q" is no flag.
Compiling(patterns) ==
    SelectSeq(patterns, LAMBDA p : p.pattern # "(" /\ p.flags # "q")

\* C31: scrubbing with a list that contains a pattern that fails to compile
\* does not throw and gives the text that scrubbing with the list without that
\* pattern gives.
C31_InvalidPatternSkipped ==
    (arg.fn = "applyScrubPatterns" /\ ret.done) =>
        /\ ~ret.threw
        /\ ret.scrubbedText = applyScrubPatterns(arg.text, Compiling(arg.patterns))
        /\ ret.processedText = processText(arg.text, Compiling(arg.patterns))

\* An invalid pattern in the middle of the list, and both patterns around it
\* have removed their match.
C31_Witness ==
    /\ arg.fn = "applyScrubPatterns" /\ ret.done
    /\ arg.patterns = << [pattern |-> "ab", flags |-> ""], [pattern |-> "a", flags |-> "q"],
                         [pattern |-> "b", flags |-> ""] >>
    /\ arg.text = "abb"
    /\ ret.scrubbedText = ""

----------------------------------------------------------------------------
(* The scheduler under fair scheduling *)

\* The steps of one site's processSite call.
JobOf(siteId) ==
    \/ ScrapeDone(siteId)
    \/ ReadDone(siteId)
    \/ ClassifyDone(siteId)
    \/ WriteFirstDone(siteId)
    \/ WriteDone(siteId)
    \/ SummarizeDone(siteId)
    \/ PostDone(siteId)
    \/ PostErrorDone(siteId)

\* The first run of the program: no baseline file exists.
FairInit ==
    /\ Init
    /\ store = [s \in SiteIds |-> NoBaseline]
    /\ ~sendBaselineNotice

\* Every await of a Site Job settles: weak fairness of the steps of the
\* site's job, written out.  They are enabled exactly while the job is in
\* flight and the process lives, so WF_vars(JobOf(siteId)) is this formula.
JobsTerminate(siteId) ==
    \/ []<>(~(Alive /\ InFlight(siteId)))
    \/ []<><<JobOf(siteId)>>_vars

\* The worker loops poll every 100 ms and every Site Job terminates.
FairSpec ==
    /\ FairInit /\ [][Next]_vars
    /\ WF_vars(worker)
    /\ \A siteId \in SiteIds : JobsTerminate(siteId)

\* The dispatcher has marked the site running.
Marked(siteId) == siteId \in DOMAIN schedules /\ schedules[siteId].isRunning

\* The site's job is executing.
Executing(siteId) == Marked(siteId) /\ InFlight(siteId)

\* The site is Idle again.
IdleAgain(siteId) ==
    /\ siteId \in DOMAIN schedules
    /\ ~schedules[siteId].isRunning
    /\ ~InFlight(siteId)
    /\ \A i \in 1..Len(workerQueue) : workerQueue[i] # siteId

\* The scheduler is running no more.
Stopped == ~running \/ proc # "run"

\* C32: while the scheduler runs, a site the dispatcher has marked running
\* comes to execute, and an executing site comes back to Idle with its flag
\* cleared.
C32_QueuedRunsThenIdle ==
    \A siteId \in SiteIds :
        /\ (Marked(siteId) /\ ~InFlight(siteId)) ~> (Executing(siteId) \/ Stopped)
        /\ Executing(siteId) ~> (IdleAgain(siteId) \/ Stopped)

\* Both sites have been queued with one worker slot, and the second has come
\* back to Idle while the scheduler still runs.
C32_Witness ==
    /\ maxConcurrency = 1
    /\ ~Stopped
    /\ \A siteId \in SiteIds : job[siteId].outcome \in {"resolved", "rejected"}
    /\ IdleAgain("a") /\ IdleAgain("b")

----------------------------------------------------------------------------
(* The dispatcher under load: three sites with short intervals *)

\* Three sites checked every one to two minutes, in registration order.
LoadSiteList == <<
    [id |-> "a", check_min |-> 1, check_max |-> 2],
    [id |-> "b", check_min |-> 1, check_max |-> 2],
    [id |-> "c", check_min |-> 1, check_max |-> 2] >>

LoadIds == {LoadSiteList[i].id : i \in 1..Len(LoadSiteList)}

LoadSiteOf(siteId) ==
    CHOOSE s \in {LoadSiteList[i] : i \in 1..Len(LoadSiteList)} : s.id = siteId

\* dispatcher(): the for loop over the schedule map of the sites `sites`,
\* in insertion order, from the i-th registered site on.
RECURSIVE dispatchOver(_, _, _, _, _)
dispatchOver(sites, i, sched, queue, queuedThisRound) ==
    IF i > Len(sites) \/ sites[i].id \notin DOMAIN sched
    THEN [schedules |-> sched, workerQueue |-> queue]
    ELSE LET siteId == sites[i].id
         IN  IF dispatchSkips(sched[siteId])
             THEN dispatchOver(sites, i + 1, sched, queue, queuedThisRound)
             ELSE IF dispatchBreaks(queuedThisRound)
             THEN [schedules |-> sched, workerQueue |-> queue]
             ELSE dispatchOver(sites, i + 1, [sched EXCEPT ![siteId] = markQueued(@)],
                               Append(queue, siteId), queuedThisRound + 1)

\* The scheduler with one worker slot; ret.executing holds the sites whose
\* processSite call has not settled.
LoadInit ==
    /\ SchedulerAtRest
    /\ arg = [fn |-> "dispatcher", sites |-> LoadSiteList]
    /\ ret = [done |-> FALSE, executing |-> {}]

LoadUnchanged ==
    UNCHANGED <<now, maxConcurrency, job, executing, store, errorThrottleMap,
                sharedBrowser, stopWaiting, browserHandler, sendBaselineNotice,
                lastFetched, arg>>

\* SiteScheduler.addSite for the next site of the list.
LoadAddSite ==
    /\ proc = "setup"
    /\ siteAddOrder < Len(arg.sites)
    /\ LET siteId == arg.sites[siteAddOrder + 1].id
       IN  /\ siteId \notin DOMAIN schedules
           /\ \E r \in RandomSamples :
                schedules' = schedules @@
                    (siteId :> [nextRunAt |-> calculateStaggeredStartTime(
                                    siteAddOrder, Cardinality(DOMAIN schedules) + 1, r),
                                isRunning |-> FALSE])
    /\ siteAddOrder' = siteAddOrder + 1
    /\ UNCHANGED <<workerQueue, activeWorkers, running, proc, ret>>
    /\ LoadUnchanged

\* SiteScheduler.start once every site is added.
LoadStart ==
    /\ proc = "setup"
    /\ siteAddOrder = Len(arg.sites)
    /\ ~running
    /\ running' = TRUE
    /\ proc' = "run"
    /\ UNCHANGED <<schedules, workerQueue, activeWorkers, siteAddOrder, ret>>
    /\ LoadUnchanged

\* dispatcher(): one round of the loop.
LoadDispatcher ==
    /\ running
    /\ LET round == dispatchOver(arg.sites, 1, schedules, workerQueue, 0)
       IN  /\ schedules' = round.schedules
           /\ workerQueue' = round.workerQueue
    /\ UNCHANGED <<activeWorkers, running, siteAddOrder, proc, ret>>
    /\ LoadUnchanged

\* worker(): a loop takes the head of the queue and calls processSite.
LoadWorker ==
    /\ running
    /\ workerMayTake
    /\ ret' = [ret EXCEPT !.executing = @ \cup {shift(workerQueue).job}]
    /\ workerQueue' = shift(workerQueue).rest
    /\ activeWorkers' = activeWorkers + 1
    /\ UNCHANGED <<schedules, running, siteAddOrder, proc>>
    /\ LoadUnchanged

\* worker(): the processSite promise of the site settles and .finally runs.
LoadSettle(siteId) ==
    /\ siteId \in ret.executing
    /\ ret' = [ret EXCEPT !.executing = @ \ {siteId}]
    /\ activeWorkers' = activeWorkers - 1
    /\ \E r \in RandomSamples :
          schedules' = [schedules EXCEPT ![siteId] =
              [nextRunAt |-> now + randomDelayMs(minMinutes(LoadSiteOf(siteId)),
                                                 maxMinutes(LoadSiteOf(siteId)), r),
               isRunning |-> FALSE]]
    /\ UNCHANGED <<workerQueue, running, siteAddOrder, proc>>
    /\ LoadUnchanged

\* The dispatcher, which runs every 3 seconds, has nothing to enqueue.
DispatcherQuiet ==
    dispatchOver(arg.sites, 1, schedules, workerQueue, 0).workerQueue = workerQueue

\* A minute passes, in which the dispatcher has run.  Times are kept relative
\* to `now`, and a time of the past is kept as one tick ago.
LoadTick ==
    /\ running
    /\ DispatcherQuiet
    /\ schedules' = [siteId \in DOMAIN schedules |->
          [schedules[siteId] EXCEPT !.nextRunAt = Max(@ - TickMs, now - TickMs)]]
    /\ UNCHANGED <<workerQueue, activeWorkers, running, siteAddOrder, proc, ret>>
    /\ LoadUnchanged

LoadNext ==
    \/ LoadAddSite
    \/ LoadStart
    \/ LoadDispatcher
    \/ LoadWorker
    \/ \E siteId \in LoadIds : LoadSettle(siteId)
    \/ LoadTick

\* The loops keep running, every Site Job terminates and time passes.
LoadSpec ==
    /\ LoadInit /\ [][LoadNext]_vars
    /\ WF_vars(LoadDispatcher)
    /\ WF_vars(LoadWorker)
    /\ \A siteId \in LoadIds : WF_vars(LoadSettle(siteId))
    /\ WF_vars(LoadTick)

\* The site's next-run time has passed and it is not marked running.
Due(siteId) ==
    /\ running
    /\ siteId \in DOMAIN schedules
    /\ ~schedules[siteId].isRunning
    /\ schedules[siteId].nextRunAt <= now

\* C33: every registered site whose next-run time has passed is eventually
\* enqueued, whatever the sites registered before it do.
C33_NoStarvation ==
    \A siteId \in LoadIds : Due(siteId) ~> Marked(siteId)

----------------------------------------------------------------------------
(* A change is notified once *)

\* The step attempts the change notification of the site: processSite
\* reaches `await postToDiscord(site, 'relevant' | 'loose', ...)`.
AttemptsChangeNotice(siteId) == job[siteId].pc # "post" /\ job'[siteId].pc = "post"

\* The step ends the read of the baseline of a job that goes on.
ReadEnds(siteId) == job[siteId].pc = "readBaseline" /\ job'[siteId].pc # "readBaseline"
                        /\ job'[siteId].pc # "killed"

\* C34: when the change notification is attempted the baseline on disk holds
\* the fingerprint of the new content, the failure of the delivery leaves it
\* there, and a cycle that fetches the content of the baseline ends without a
\* notification.
C34_ChangeNotifiedOnce ==
    [][\A siteId \in SiteIds :
          /\ AttemptsChangeNotice(siteId) =>
                /\ store[siteId].hash = sha256(job[siteId].currentText)
                /\ job[siteId].baseline.hash # sha256(job[siteId].currentText)
                /\ store'[siteId] = store[siteId]
          /\ (job[siteId].pc = "post" /\ job'[siteId].pc # "post") =>
                store'[siteId] = store[siteId]
          /\ (ReadEnds(siteId) /\ store[siteId].hash = sha256(job[siteId].currentText)) =>
                /\ job'[siteId].pc = "idle"
                /\ job'[siteId].outcome = "resolved"
                /\ job'[siteId].posted = {}
                /\ store' = store]_vars

\* The delivery of a change notification of site a has failed in an earlier
\* cycle, after the write of the new baseline, and a later cycle that fetched
\* the same content has returned without writing or notifying.
C34_Witness ==
    /\ ~sendBaselineNotice
    /\ errorThrottleMap["a"] # NoEntry
    /\ store["a"].lastCheckedISO = errorThrottleMap["a"]
    /\ store["a"].lastCheckedISO < now
    /\ lastFetched["a"].fetched /\ lastFetched["a"].text = store["a"].text
    /\ job["a"].pc = "idle" /\ job["a"].outcome = "resolved"

----------------------------------------------------------------------------
(* browser.ts: the shared browser and the jobs that ask for it *)

\* The browsers chromium.launch may start in one run of the model.
MaxLaunches == 3

\* site.headless of the two sites.
HeadlessModes == {"headless", "headful"}

\* The n-th browser chromium.launch has started.
Browser(n) == "B" \o ToString(n)

\* Two Site Jobs with their headless modes; no browser is launched yet and
\* currentHeadlessMode is null.  ret.pc is the position of each job in
\* scrapeWithRetry, ret.held the browser its getSharedBrowser call returned.
BrowserInit ==
    /\ SchedulerAtRest
    /\ arg \in { [fn |-> "getSharedBrowser", headless |-> h]
                   : h \in [SiteIds -> HeadlessModes] }
    /\ ret = [done |-> FALSE, currentHeadlessMode |-> "null", launched |-> {},
              closed |-> {}, pc |-> [s \in SiteIds |-> "idle"],
              held |-> [s \in SiteIds |-> "null"]]

BrowserUnchanged ==
    UNCHANGED <<now, errorThrottleMap, schedules, workerQueue, activeWorkers,
                maxConcurrency, running, siteAddOrder, job, executing, store, proc,
                stopWaiting, browserHandler, sendBaselineNotice, lastFetched, arg>>

\* getSharedBrowser from `if (!sharedBrowser)` on, with `browser` the value
\* of sharedBrowser: it awaits chromium.launch, or returns the browser.
LaunchOrReturn(siteId, r, browser) ==
    IF browser = "null"
    THEN [r EXCEPT !.pc[siteId] = "launching"]
    ELSE [r EXCEPT !.pc[siteId] = "using", !.held[siteId] = browser]

\* scrapeWithRetry calls newContext(site.headless), which calls
\* getSharedBrowser: up to its first await, or to its return.
GetSharedBrowserCall(siteId) ==
    /\ ret.pc[siteId] = "idle"
    /\ Cardinality(ret.launched) < MaxLaunches
    /\ IF sharedBrowser # "null" /\ ret.currentHeadlessMode # arg.headless[siteId]
       THEN ret' = [ret EXCEPT !.pc[siteId] = "closing",
                               !.closed = @ \cup {sharedBrowser}]
       ELSE ret' = LaunchOrReturn(siteId, ret, sharedBrowser)
    /\ UNCHANGED sharedBrowser
    /\ BrowserUnchanged

\* `await sharedBrowser.close()` ends: sharedBrowser = null, and the launch
\* begins.
CloseResolves(siteId) ==
    /\ ret.pc[siteId] = "closing"
    /\ sharedBrowser' = "null"
    /\ ret' = LaunchOrReturn(siteId, ret, "null")
    /\ BrowserUnchanged

\* `await chromium.launch(...)` ends: the browser is assigned and returned.
LaunchResolves(siteId) ==
    /\ ret.pc[siteId] = "launching"
    /\ Cardinality(ret.launched) < MaxLaunches
    /\ LET browser == Browser(Cardinality(ret.launched) + 1)
       IN  /\ sharedBrowser' = browser
           /\ ret' = [ret EXCEPT !.launched = @ \cup {browser},
                                 !.currentHeadlessMode = arg.headless[siteId],
                                 !.pc[siteId] = "using", !.held[siteId] = browser]
    /\ BrowserUnchanged

\* chromium.launch throws: the job fails.
LaunchRejects(siteId) ==
    /\ ret.pc[siteId] = "launching"
    /\ ret' = [ret EXCEPT !.pc[siteId] = "idle"]
    /\ UNCHANGED sharedBrowser
    /\ BrowserUnchanged

\* scrapeWithRetry ends, with the text or with an error: context.close().
ContextCloses(siteId) ==
    /\ ret.pc[siteId] = "using"
    /\ ret' = [ret EXCEPT !.pc[siteId] = "idle", !.held[siteId] = "null"]
    /\ UNCHANGED sharedBrowser
    /\ BrowserUnchanged

BrowserNext ==
    \E siteId \in SiteIds :
        \/ GetSharedBrowserCall(siteId)
        \/ CloseResolves(siteId)
        \/ LaunchResolves(siteId)
        \/ LaunchRejects(siteId)
        \/ ContextCloses(siteId)

BrowserSpec == BrowserInit /\ [][BrowserNext]_vars

\* The browsers that are launched and not closed.
LiveBrowsers == ret.launched \ ret.closed

\* C35: the browser a Site Job is using is not closed.
C35_BrowserInUseStaysOpen ==
    arg.fn = "getSharedBrowser" =>
        \A siteId \in SiteIds :
            ret.pc[siteId] = "using" => ret.held[siteId] \notin ret.closed

\* C36: at most one browser is live, and it is the one sharedBrowser refers to.
C36_OneBrowser ==
    arg.fn = "getSharedBrowser" =>
        /\ Cardinality(LiveBrowsers) <= 1
        /\ \A browser \in LiveBrowsers : sharedBrowser = browser

----------------------------------------------------------------------------
(* addSite with site lists that hold an id more than once *)

\* The sites main() registers in one run of the model.
MaxAdds == 3

RECURSIVE ListsOfLen(_, _)
ListsOfLen(S, n) ==
    IF n = 0 THEN { << >> }
    ELSE { Append(l, x) : l \in ListsOfLen(S, n - 1), x \in S }

\* The configuration lists the ids of arg.sites, in this order; ret.called
\* counts the calls of addSite and ret.skipped the calls that returned early.
RegisterInit ==
    /\ SchedulerAtRest
    /\ arg \in { [fn |-> "addSite", sites |-> l] : l \in ListsOfLen(LoadIds, MaxAdds) }
    /\ ret = [done |-> FALSE, called |-> 0, skipped |-> 0]

\* A variant without the test.
alreadyScheduled_never(siteId) == FALSE

\* addSite: this.schedules.has(siteId)
alreadyScheduled(siteId) == siteId \in DOMAIN schedules

\* main(): scheduler.addSite(site) for the next site of the list.
AddSiteCall ==
    /\ ret.called < Len(arg.sites)
    /\ LET siteId == arg.sites[ret.called + 1]
       IN  IF alreadyScheduled(siteId)
           THEN /\ UNCHANGED <<schedules, siteAddOrder>>
                /\ ret' = [ret EXCEPT !.called = @ + 1, !.skipped = @ + 1,
                                      !.done = (ret.called + 1 = Len(arg.sites))]
           ELSE /\ \E r \in RandomSamples :
                     schedules' =
                        (siteId :> [nextRunAt |-> calculateStaggeredStartTime(
                                        siteAddOrder, Cardinality(DOMAIN schedules) + 1, r),
                                    isRunning |-> FALSE]) @@ schedules
                /\ siteAddOrder' = siteAddOrder + 1
                /\ ret' = [ret EXCEPT !.called = @ + 1,
                                      !.done = (ret.called + 1 = Len(arg.sites))]
    /\ UNCHANGED <<workerQueue, activeWorkers, running, proc>>
    /\ LoadUnchanged

RegisterSpec == RegisterInit /\ [][AddSiteCall]_vars

\* C37: a call of addSite with an id that is registered leaves the schedule
\* map, the worker queue and the stagger counter as they are.
C37_DuplicateAddIsNoop ==
    [][(arg.fn = "addSite" /\ ret'.called = ret.called + 1
            /\ arg.sites[ret.called + 1] \in DOMAIN schedules) =>
          /\ schedules' = schedules
          /\ workerQueue' = workerQueue
          /\ siteAddOrder' = siteAddOrder]_vars

\* The list a, b, a is registered: the third call has returned early, two
\* sites are scheduled and the counter stands at 2.
C37_Witness ==
    /\ arg.fn = "addSite" /\ arg.sites = <<"a", "b", "a">>
    /\ ret.called = 3 /\ ret.skipped = 1
    /\ DOMAIN schedules = {"a", "b"}
    /\ siteAddOrder = 2

----------------------------------------------------------------------------
(* What stop() leaves behind *)

\* The step in which `await scheduler.stop()` returns.
StopReturns == stopWaiting /\ ~stopWaiting'

\* C38: when stop() returns the worker queue is empty and no site is marked
\* running.
C38_StopLeavesNothingQueued ==
    [][StopReturns =>
          /\ workerQueue = << >>
          /\ \A siteId \in DOMAIN schedules : ~schedules[siteId].isRunning]_vars

====
